---- MODULE Spec2Model ----
(***************************************************************************)
(* Portfolio-Generator: the in-memory data store (server/storage.ts), the  *)
(* validation schemas (shared/schema.ts), the HTTP handlers                *)
(* (server/routes.ts), the browser's portfolio page (client/src) and the   *)
(* GitHub aggregator as a state machine.                                   *)
(*                                                                         *)
(* An async handler runs synchronously up to its next `await`; every       *)
(* MemStorage method has no await of its own, so a call to it is one       *)
(* atomic step and the handler resumes after the await in a later step.    *)
(* One action below is the code between two consecutive awaits.            *)
(***************************************************************************)
EXTENDS Integers, Sequences, FiniteSets, TLC

(***************************************************************************)
(* Bounds of the model.                                                    *)
(***************************************************************************)
\* number of requests that may be in flight at the same time
NumHandlers == 2
\* number of requests the clients send over a run of Spec
MaxRequests == 2
\* number of requests the clients send over a run of SeqSpec
MaxSeqRequests == 4
\* number of direct MemStorage calls over a run of StoreSpec
MaxCalls == 3
\* last value of the server clock (milliseconds)
MaxClock == 1

Procs == 1..NumHandlers

(***************************************************************************)
(* JavaScript values.  A scalar carries its type, so that a schema's type  *)
(* check is a real test; `undefined` is the empty option.                  *)
(***************************************************************************)
JStr(s) == [type |-> "string", val |-> s]
JNum(n) == [type |-> "number", val |-> n]
JNull == [type |-> "null"]
\* the number a numeral beyond the range of a double denotes ("order": 1e999)
JInfinity == [type |-> "number", infinite |-> TRUE]
NaN == [type |-> "NaN"]

None == <<>>
Some(x) == <<x>>
IsSome(o) == o # <<>>
Get(o) == o[1]

IsString(v) == v.type = "string"
\* z.number(): any value of type number but NaN, finite or not
IsNumber(v) == v.type = "number"
IsFinite(v) == "val" \in DOMAIN v

Min(S) == CHOOSE x \in S : \A y \in S : x <= y

Restrict(f, keys) == [k \in (DOMAIN f) \cap keys |-> f[k]]

\* Map.prototype.set: insert, or overwrite the value of an existing key
MapSet(m, k, v) == [x \in (DOMAIN m) \cup {k} |-> IF x = k THEN v ELSE m[x]]
\* Map.prototype.get
MapGet(m, k) == IF k \in DOMAIN m THEN Some(m[k]) ELSE None
\* Array.from(map.values()).find(pred): the first match in insertion order.
\* Keys are inserted in increasing order and never deleted, so insertion
\* order is key order.
MapFind(m, matches) ==
  IF matches = {} THEN None ELSE Some(m[Min(matches)])
\* Array.from(map.values()): the values in insertion order
MapValues(m) ==
  LET key(i) == CHOOSE k \in DOMAIN m : Cardinality({j \in DOMAIN m : j < k}) = i - 1
  IN [i \in 1..Cardinality(DOMAIN m) |-> m[key(i)]]

(***************************************************************************)
(* Strings: characters and the parsers the code relies on.                 *)
(***************************************************************************)
Char(s, i) == SubSeq(s, i, i)
Tail_(s, i) == SubSeq(s, i, Len(s))

DigitChars == <<"0", "1", "2", "3", "4", "5", "6", "7", "8", "9">>
IsDigit(c) == \E d \in 1..10 : DigitChars[d] = c
DigitVal(c) == (CHOOSE d \in 1..10 : DigitChars[d] = c) - 1

LowerChars == <<"a","b","c","d","e","f","g","h","i","j","k","l","m",
                "n","o","p","q","r","s","t","u","v","w","x","y","z">>
UpperChars == <<"A","B","C","D","E","F","G","H","I","J","K","L","M",
                "N","O","P","Q","R","S","T","U","V","W","X","Y","Z">>
IsAlpha(c) == \E k \in 1..26 : LowerChars[k] = c \/ UpperChars[k] = c
ToLowerChar(c) ==
  IF \E k \in 1..26 : UpperChars[k] = c
  THEN LowerChars[CHOOSE k \in 1..26 : UpperChars[k] = c]
  ELSE c
IsWhiteSpace(c) == c = " "

RECURSIVE ToLower(_)
ToLower(s) == IF s = "" THEN "" ELSE ToLowerChar(Char(s, 1)) \o ToLower(Tail_(s, 2))

RECURSIVE TrimStart(_)
TrimStart(s) ==
  IF s # "" /\ IsWhiteSpace(Char(s, 1)) THEN TrimStart(Tail_(s, 2)) ELSE s

RECURSIVE TrimEnd(_)
TrimEnd(s) ==
  IF s # "" /\ IsWhiteSpace(Char(s, Len(s)))
  THEN TrimEnd(SubSeq(s, 1, Len(s) - 1)) ELSE s

\* length of the longest prefix of s made of decimal digits
RECURSIVE DigitPrefixLen(_)
DigitPrefixLen(s) ==
  IF s # "" /\ IsDigit(Char(s, 1)) THEN 1 + DigitPrefixLen(Tail_(s, 2)) ELSE 0

\* value of a string of decimal digits
RECURSIVE DecimalValue(_)
DecimalValue(s) ==
  IF s = "" THEN 0
  ELSE 10 * DecimalValue(SubSeq(s, 1, Len(s) - 1)) + DigitVal(Char(s, Len(s)))

\* parseInt(string) with no radix, for the strings of IdParams: leading
\* white space is skipped, one sign is read, then the longest run of
\* decimal digits; what follows the digits is ignored; no digit gives NaN.
parseInt(str) ==
  LET s == TrimStart(str)
      signed == s # "" /\ Char(s, 1) \in {"-", "+"}
      rest == IF signed THEN Tail_(s, 2) ELSE s
      n == DigitPrefixLen(rest)
      mag == DecimalValue(SubSeq(rest, 1, n))
  IN IF n = 0 THEN NaN
     ELSE JNum(IF signed /\ Char(s, 1) = "-" THEN 0 - mag ELSE mag)

isNaN(v) == v.type = "NaN"

(***************************************************************************)
(* The validation layer (shared/schema.ts).                                *)
(***************************************************************************)
\* index of the ":" that ends the URL scheme of s, 0 when s has no scheme:
\* a scheme is a letter followed by letters, digits, "+", "-" or "."
RECURSIVE SchemeEnd(_, _)
SchemeEnd(s, i) ==
  IF i > Len(s) THEN 0
  ELSE LET c == Char(s, i)
       IN IF c = ":" THEN (IF i > 1 THEN i ELSE 0)
          ELSE IF IsAlpha(c) \/ (i > 1 /\ (IsDigit(c) \/ c \in {"+", "-", "."}))
               THEN SchemeEnd(s, i + 1)
               ELSE 0

RECURSIVE SkipSlashes(_)
SkipSlashes(s) ==
  IF s # "" /\ Char(s, 1) \in {"/", "\\"} THEN SkipSlashes(Tail_(s, 2)) ELSE s

\* the host of an authority: what precedes the first "/", "\", "?" or "#"
RECURSIVE HostOf(_)
HostOf(s) ==
  IF s = "" \/ Char(s, 1) \in {"/", "\\", "?", "#"} THEN ""
  ELSE Char(s, 1) \o HostOf(Tail_(s, 2))

RECURSIVE HasChar(_, _)
HasChar(s, c) == s # "" /\ (Char(s, 1) = c \/ HasChar(Tail_(s, 2), c))

SpecialSchemes == {"http", "https", "ws", "wss", "ftp"}

\* `new URL(val)` does not throw: val, trimmed, has a scheme, and a special
\* scheme is followed by a non-empty host without a forbidden code point
IsUrl(val) ==
  LET t == TrimEnd(TrimStart(val))
      e == SchemeEnd(t, 1)
      scheme == ToLower(SubSeq(t, 1, e - 1))
      host == HostOf(SkipSlashes(Tail_(t, e + 1)))
  IN /\ e > 0
     /\ scheme \in SpecialSchemes => (host # "" /\ ~HasChar(host, " "))

\* z.string().url()
zStringUrl(v) == IsString(v) /\ IsUrl(v.val)

\* the validator without the branch for local paths: z.string().url()
relativeOrAbsoluteUrl_UrlOnly(v) == IsString(v) /\ IsUrl(v.val)

\* relativeOrAbsoluteUrl: val.startsWith('/') or new URL(val) succeeds
relativeOrAbsoluteUrl(v) ==
  /\ IsString(v)
  /\ \/ (v.val # "" /\ Char(v.val, 1) = "/")
     \/ IsUrl(v.val)

\* a key of a z.object: required, or .optional()
Required(o, k, P(_)) == k \in DOMAIN o /\ P(o[k])
Optional(o, k, P(_)) == k \in DOMAIN o => P(o[k])
\* z.array(item)
AllOf(arr, P(_)) == \A i \in 1..Len(arr) : P(arr[i])

SocialMediaKeys == {"name", "url"}
ProjectKeys == {"title", "description", "image", "github", "order"}
PortfolioKeys == {"fullName", "title", "shortBio", "profilePicture",
                  "detailedBio", "skills", "projects", "socialMedia"}
ContactKeys == {"name", "email", "subject", "message", "portfolioId"}

\* a z.object strips the keys it does not declare from what it returns
socialMediaSchema(v) ==
  [success |-> /\ Required(v, "name", IsString)
               /\ Required(v, "url", zStringUrl),
   data |-> Restrict(v, SocialMediaKeys)]

\* projectSchema keeping the keys it does not declare (.passthrough())
projectSchema_Passthrough(v) ==
  [success |-> /\ Required(v, "title", IsString)
               /\ Optional(v, "description", IsString)
               /\ Optional(v, "image", relativeOrAbsoluteUrl)
               /\ Required(v, "github", zStringUrl)
               /\ Optional(v, "order", IsNumber),
   data |-> v]

projectSchema(v) ==
  [success |-> /\ Required(v, "title", IsString)
               /\ Optional(v, "description", IsString)
               /\ Optional(v, "image", relativeOrAbsoluteUrl)
               /\ Required(v, "github", zStringUrl)
               /\ Optional(v, "order", IsNumber),
   data |-> Restrict(v, ProjectKeys)]

projectSchemaOk(v) == projectSchema(v).success
socialMediaSchemaOk(v) == socialMediaSchema(v).success
AllStrings(arr) == AllOf(arr, IsString)
AllProjects(arr) == AllOf(arr, projectSchemaOk)
AllSocialMedia(arr) == AllOf(arr, socialMediaSchemaOk)

\* portfolioSchema.safeParse(body)
portfolioSchema(body) ==
  [success |-> /\ Required(body, "fullName", IsString)
               /\ Required(body, "title", IsString)
               /\ Required(body, "shortBio", IsString)
               /\ Required(body, "profilePicture", relativeOrAbsoluteUrl)
               /\ Required(body, "detailedBio", IsString)
               /\ Required(body, "skills", AllStrings)
               /\ Required(body, "projects", AllProjects)
               /\ Required(body, "socialMedia", AllSocialMedia),
   data |-> [k \in (DOMAIN body) \cap PortfolioKeys |->
               IF k = "projects"
               THEN [i \in 1..Len(body[k]) |-> projectSchema(body[k][i]).data]
               ELSE IF k = "socialMedia"
               THEN [i \in 1..Len(body[k]) |-> socialMediaSchema(body[k][i]).data]
               ELSE body[k]]]

\* a nullable, optional column of the insert schema
IsStringOrNull(v) == v.type \in {"string", "null"}
IsNumberOrNull(v) == v.type \in {"number", "null"}

\* insertContactSchema.safeParse(contactData): createInsertSchema(contactMessages)
\* picks name, email, subject, message and portfolioId; the text columns are
\* plain strings, with no length or format constraint
insertContactSchema(contactData) ==
  [success |-> /\ Required(contactData, "name", IsString)
               /\ Required(contactData, "email", IsString)
               /\ Optional(contactData, "subject", IsStringOrNull)
               /\ Required(contactData, "message", IsString)
               /\ Optional(contactData, "portfolioId", IsNumberOrNull),
   data |-> Restrict(contactData, ContactKeys)]

\* Date.prototype.toISOString() of the server clock, t milliseconds after
\* the epoch (t < 10)
toISOString(t) == "1970-01-01T00:00:00.00" \o DigitChars[t + 1] \o "Z"

(***************************************************************************)
(* The data store (server/storage.ts, class MemStorage).  A store is the   *)
(* record of the object's six fields; a method is an operator from a store *)
(* and its arguments to the store it leaves and the value it returns.      *)
(***************************************************************************)
\* constructor()
NewMemStorage ==
  [users |-> <<>>, portfolios |-> <<>>, contactMessages |-> <<>>,
   currentUserId |-> 1, currentPortfolioId |-> 1, currentContactMessageId |-> 1]

getUser(st, id) == [store |-> st, result |-> MapGet(st.users, id)]

getUserByUsername(st, username) ==
  [store |-> st,
   result |-> MapFind(st.users,
                      {i \in DOMAIN st.users : st.users[i].username = username})]

\* createUser reading the counter without advancing it
createUser_NoIncrement(st, insertUser) ==
  LET id == st.currentUserId
      user == [username |-> insertUser.username,
               password |-> insertUser.password, id |-> id]
  IN [store |-> [st EXCEPT !.users = MapSet(st.users, id, user)],
      result |-> user]

createUser(st, insertUser) ==
  LET id == st.currentUserId
      user == [username |-> insertUser.username,
               password |-> insertUser.password, id |-> id]
  IN [store |-> [st EXCEPT !.currentUserId = id + 1,
                           !.users = MapSet(st.users, id, user)],
      result |-> user]

getPortfolio(st, id) == [store |-> st, result |-> MapGet(st.portfolios, id)]

\* getPortfolioByUserId comparing with a value no userId is equal to
getPortfolioByUserId_NeverMatches(st, userId) == [store |-> st, result |-> None]

getPortfolioByUserId(st, userId) ==
  [store |-> st,
   result |-> MapFind(st.portfolios,
                      {i \in DOMAIN st.portfolios : st.portfolios[i].userId = userId})]

\* createPortfolio reading the counter without advancing it
createPortfolio_NoIncrement(st, insertPortfolio) ==
  LET id == st.currentPortfolioId
      portfolio == [userId |-> insertPortfolio.userId,
                    data |-> insertPortfolio.data, id |-> id]
  IN [store |-> [st EXCEPT !.portfolios = MapSet(st.portfolios, id, portfolio)],
      result |-> Some(portfolio)]

createPortfolio(st, insertPortfolio) ==
  LET id == st.currentPortfolioId
      portfolio == [userId |-> insertPortfolio.userId,
                    data |-> insertPortfolio.data, id |-> id]
  IN [store |-> [st EXCEPT !.currentPortfolioId = id + 1,
                           !.portfolios = MapSet(st.portfolios, id, portfolio)],
      result |-> Some(portfolio)]

\* updatePortfolio merging the new data into the old, project by project
updatePortfolio_Merges(st, id, data) ==
  LET portfolio == MapGet(st.portfolios, id)
  IN IF ~IsSome(portfolio) THEN [store |-> st, result |-> None]
     ELSE LET old == Get(portfolio).data
              merged == [data EXCEPT !.projects =
                           [i \in 1..Len(data.projects) |->
                              IF i <= Len(old.projects)
                              THEN data.projects[i] @@ old.projects[i]
                              ELSE data.projects[i]]]
              updatedPortfolio == [Get(portfolio) EXCEPT !.data = merged]
          IN [store |-> [st EXCEPT !.portfolios =
                                     MapSet(st.portfolios, id, updatedPortfolio)],
              result |-> Some(updatedPortfolio)]

\* updatePortfolio storing the data under an id that is absent
updatePortfolio_Upserts(st, id, data) ==
  LET portfolio == MapGet(st.portfolios, id)
      updatedPortfolio == IF IsSome(portfolio)
                          THEN [Get(portfolio) EXCEPT !.data = data]
                          ELSE [id |-> id, data |-> data]
  IN [store |-> [st EXCEPT !.portfolios =
                             MapSet(st.portfolios, id, updatedPortfolio)],
      result |-> Some(updatedPortfolio)]

\* updatePortfolio building the record from id and data, without the spread
updatePortfolio_DropsUserId(st, id, data) ==
  LET portfolio == MapGet(st.portfolios, id)
  IN IF ~IsSome(portfolio) THEN [store |-> st, result |-> None]
     ELSE LET updatedPortfolio == [id |-> id, data |-> data]
          IN [store |-> [st EXCEPT !.portfolios =
                                     MapSet(st.portfolios, id, updatedPortfolio)],
              result |-> Some(updatedPortfolio)]

updatePortfolio(st, id, data) ==
  LET portfolio == MapGet(st.portfolios, id)
  IN IF ~IsSome(portfolio) THEN [store |-> st, result |-> None]
     ELSE LET updatedPortfolio == [Get(portfolio) EXCEPT !.data = data]
          IN [store |-> [st EXCEPT !.portfolios =
                                     MapSet(st.portfolios, id, updatedPortfolio)],
              result |-> Some(updatedPortfolio)]

\* createContactMessage drawing its id from the portfolios' counter
createContactMessage_PortfolioCounter(st, insertMessage, now) ==
  LET id == st.currentPortfolioId
      message == [k \in (DOMAIN insertMessage) \cup {"id", "createdAt"} |->
                    IF k = "id" THEN id
                    ELSE IF k = "createdAt" THEN JStr(toISOString(now))
                    ELSE insertMessage[k]]
  IN [store |-> [st EXCEPT !.currentPortfolioId = id + 1,
                           !.contactMessages = MapSet(st.contactMessages, id, message)],
      result |-> message]

\* createContactMessage stamping the time the module was loaded, read once
createContactMessage_StartupClock(st, insertMessage, now) ==
  LET id == st.currentContactMessageId
      message == [k \in (DOMAIN insertMessage) \cup {"id", "createdAt"} |->
                    IF k = "id" THEN id
                    ELSE IF k = "createdAt" THEN JStr(toISOString(0))
                    ELSE insertMessage[k]]
  IN [store |-> [st EXCEPT !.currentContactMessageId = id + 1,
                           !.contactMessages = MapSet(st.contactMessages, id, message)],
      result |-> message]

\* { ...insertMessage, id, createdAt: new Date().toISOString() }
createContactMessage(st, insertMessage, now) ==
  LET id == st.currentContactMessageId
      message == [k \in (DOMAIN insertMessage) \cup {"id", "createdAt"} |->
                    IF k = "id" THEN id
                    ELSE IF k = "createdAt" THEN JStr(toISOString(now))
                    ELSE insertMessage[k]]
  IN [store |-> [st EXCEPT !.currentContactMessageId = id + 1,
                           !.contactMessages = MapSet(st.contactMessages, id, message)],
      result |-> message]

\* message.portfolioId === portfolioId: a message with no portfolioId, or
\* with null, is not of portfolio portfolioId
IsOfPortfolio(message, portfolioId) ==
  /\ "portfolioId" \in DOMAIN message
  /\ message.portfolioId = JNum(portfolioId)

\* getContactMessages letting through the messages that name no portfolio
getContactMessages_IncludesUnassigned(st, portfolioId) ==
  [store |-> st,
   result |-> SelectSeq(MapValues(st.contactMessages),
                        LAMBDA message : "portfolioId" \in DOMAIN message
                                           => IsOfPortfolio(message, portfolioId))]

\* Array.from(this.contactMessages.values()).filter(...)
getContactMessages(st, portfolioId) ==
  [store |-> st,
   result |-> SelectSeq(MapValues(st.contactMessages),
                        LAMBDA message : IsOfPortfolio(message, portfolioId))]

(***************************************************************************)
(* The requests the clients send.                                          *)
(***************************************************************************)
ProjectA ==
  [title |-> JStr("A"), description |-> JStr("first"),
   image |-> JStr("/uploads/a.png"), github |-> JStr("https://github.com/u/a"),
   order |-> JNum(0)]
ProjectB == [title |-> JStr("B"), github |-> JStr("https://github.com/u/b")]

PayloadA ==
  [fullName |-> JStr("Ann"), title |-> JStr("Dev"), shortBio |-> JStr("hi"),
   profilePicture |-> JStr("/uploads/abc.png"), detailedBio |-> JStr("bio"),
   skills |-> <<JStr("go")>>, projects |-> <<ProjectA>>,
   socialMedia |-> <<[name |-> JStr("web"), url |-> JStr("https://ann.dev")]>>]
\* the same shape with other values and a project without optional fields
PayloadB ==
  [fullName |-> JStr("Bob"), title |-> JStr("Ops"), shortBio |-> JStr("yo"),
   profilePicture |-> JStr("https://example.com/x.png"), detailedBio |-> JStr(""),
   skills |-> <<>>, projects |-> <<ProjectB>>, socialMedia |-> <<>>]
\* PayloadB with "order": 1e999 in its project
PayloadHuge == [PayloadB EXCEPT !.projects = <<ProjectB @@ ("order" :> JInfinity)>>]
\* valid, with an unknown field at the top and one inside a project
PayloadExtra ==
  [k \in PortfolioKeys \cup {"admin"} |->
     IF k = "admin" THEN JStr("yes")
     ELSE IF k = "projects" THEN <<ProjectB @@ ("stars" :> JNum(5))>>
     ELSE PayloadB[k]]
PayloadBadPicture == [PayloadA EXCEPT !.profilePicture = JStr("not-a-url")]

PortfolioBodies == {PayloadA, PayloadB, PayloadHuge, PayloadExtra, PayloadBadPicture}

\* the least the form sends: a name of 2 characters, a message of 10
ContactOk ==
  [name |-> JStr("Al"), email |-> JStr("al@example.com"),
   message |-> JStr("0123456789")]
\* a message of 9 characters
ContactShortMessage == [ContactOk EXCEPT !.message = JStr("012345678")]
\* a name of 1 character
ContactShortName == [ContactOk EXCEPT !.name = JStr("A")]
\* every column, and a createdAt of the client's
ContactFull ==
  [name |-> JStr("Al"), email |-> JStr("al@example.com"), subject |-> JStr("job"),
   message |-> JStr("0123456789"), portfolioId |-> JNum(1),
   createdAt |-> JStr("1999-12-31T23:59:59.999Z")]
ContactNoMessage == Restrict(ContactOk, {"name", "email"})

ContactBodies == {ContactShortMessage, ContactShortName, ContactFull, ContactNoMessage}

\* the :id path parameter of GET /api/portfolio/:id
IdParams == {"1", "2", "abc", "1abc"}

(***************************************************************************)
(* State.                                                                  *)
(***************************************************************************)
VARIABLES
  storage,   \* the MemStorage singleton
  clock,     \* the server clock: the last value new Date() read
  pc,        \* pc[p]: the await at which handler p is suspended, or "idle"
  req,       \* req[p]: the request handler p is handling
  local,     \* local[p]: the handler's local variables
  sent,      \* the response the last step sent, with its request
  budget,    \* number of requests the clients have still to send
  assigned,  \* history: the ids each create* returned, in call order
  lastPost,  \* history: the last POST /api/portfolio answered 200 or 201
  prevPost,  \* history: the one before lastPost
  n201,      \* history: number of 201 answers of POST /api/portfolio
  calls,     \* number of direct MemStorage calls (StoreSpec)
  lastCall,  \* history: the last direct MemStorage call (StoreSpec)
  page,      \* the browser: Router's portfolioData, ProjectsSection's
             \* projects, the requests sent and not yet received, and
             \* (history) the last drop that handleDragEnd ignored
  uploads    \* the names of the files of the directory uploads/

vars == <<storage, clock, pc, req, local, sent, budget, assigned, lastPost,
          prevPost, n201, calls, lastCall, page, uploads>>

NoRequest == [kind |-> "none"]
NoLocals == [portfolioData |-> None, user |-> None, portfolio |-> None, contact |-> None]
\* the data entry form is shown: useState<PortfolioData | null>(null)
NoPage == [data |-> None, projects |-> <<>>, pending |-> <<>>, ignored |-> None]

Start(requests) ==
  /\ budget = requests
  /\ storage = NewMemStorage
  /\ clock = 0
  /\ pc = [p \in Procs |-> "idle"]
  /\ req = [p \in Procs |-> NoRequest]
  /\ local = [p \in Procs |-> NoLocals]
  /\ sent = None
  /\ assigned = [users |-> <<>>, portfolios |-> <<>>, contactMessages |-> <<>>]
  /\ lastPost = None
  /\ prevPost = None
  /\ n201 = 0
  /\ calls = 0
  /\ lastCall = None
  /\ page = NoPage
  /\ uploads = {}

Init == Start(MaxRequests)
SeqInit == Start(MaxSeqRequests)

(***************************************************************************)
(* The HTTP handlers (server/routes.ts).  A segment is the code a handler  *)
(* runs between two awaits: an operator from the store and the handler's   *)
(* locals to the store it leaves, the await it stops at (or the response   *)
(* it sends) and the ids the create* calls it made returned.               *)
(***************************************************************************)
\* return res.status(status).json(body)
Send(st, status, body) ==
  [store |-> st, pc |-> "idle", local |-> NoLocals,
   resp |-> Some([status |-> status, body |-> body]), created |-> <<>>]
\* suspended at an await
Await(st, at, loc, created) ==
  [store |-> st, pc |-> at, local |-> loc, resp |-> None, created |-> created]

ValidationMessage == "Validation error"

\* GET /api/portfolio/:id, up to `await storage.getPortfolio(portfolioId)`
getPortfolioHandler(st, idParam) ==
  LET portfolioId == parseInt(idParam)
  IN IF isNaN(portfolioId)
     THEN Send(st, 400, [message |-> "Invalid portfolio ID"])
     ELSE LET r == getPortfolio(st, portfolioId.val)
          IN Await(r.store, "get:afterGetPortfolio",
                   [NoLocals EXCEPT !.portfolio = r.result], <<>>)

\* what a client reads of a scalar once res.json has serialised it:
\* JSON.stringify writes a number that is not finite as null
jsonScalar(v) == IF IsNumber(v) /\ ~IsFinite(v) THEN JNull ELSE v
\* what a client reads of a PortfolioData sent with res.json
jsonPortfolioData(data) ==
  [data EXCEPT !.projects =
     [i \in 1..Len(data.projects) |->
        [k \in DOMAIN data.projects[i] |-> jsonScalar(data.projects[i][k])]]]

\* GET /api/portfolio/:id, after the await
getPortfolioRespond(st, loc) ==
  IF ~IsSome(loc.portfolio)
  THEN Send(st, 404, [message |-> "Portfolio not found"])
  ELSE Send(st, 200, jsonPortfolioData(Get(loc.portfolio).data))

\* the handler provisioning the default user before it validates the body
postPortfolioHandler_ProvisionsFirst(st, body) ==
  LET found == getUserByUsername(st, "defaultuser")
      made == createUser(st, [username |-> "defaultuser",
                              password |-> "defaultpassword"])
      r == IF IsSome(found.result)
           THEN [store |-> st, result |-> Get(found.result), created |-> <<>>]
           ELSE [store |-> made.store, result |-> made.result,
                 created |-> <<[kind |-> "users", id |-> made.result.id]>>]
      result == portfolioSchema(body)
  IN IF ~result.success
     THEN [Send(r.store, 400, [message |-> ValidationMessage])
             EXCEPT !.created = r.created]
     ELSE Await(r.store, "post:afterGetUser",
                [NoLocals EXCEPT !.portfolioData = Some(result.data),
                                 !.user = Some(r.result)], r.created)

\* POST /api/portfolio, up to `await storage.getUserByUsername("defaultuser")`
postPortfolioHandler(st, body) ==
  LET result == portfolioSchema(body)
  IN IF ~result.success
     THEN Send(st, 400, [message |-> ValidationMessage])
     ELSE LET r == getUserByUsername(st, "defaultuser")
          IN Await(r.store, "post:afterGetUser",
                   [NoLocals EXCEPT !.portfolioData = Some(result.data),
                                    !.user = r.result], <<>>)

\* if (!user) user = await storage.createUser(...); else falls through to
\* `await storage.getPortfolioByUserId(user.id)`
postPortfolioAfterGetUser(st, loc) ==
  IF ~IsSome(loc.user)
  THEN LET r == createUser(st, [username |-> "defaultuser",
                                password |-> "defaultpassword"])
       IN Await(r.store, "post:afterCreateUser",
                [loc EXCEPT !.user = Some(r.result)],
                <<[kind |-> "users", id |-> r.result.id]>>)
  ELSE LET r == getPortfolioByUserId(st, Get(loc.user).id)
       IN Await(r.store, "post:afterGetPortfolio",
                [loc EXCEPT !.portfolio = r.result], <<>>)

\* let portfolio = await storage.getPortfolioByUserId(user.id)
postPortfolioAfterCreateUser(st, loc) ==
  LET r == getPortfolioByUserId(st, Get(loc.user).id)
  IN Await(r.store, "post:afterGetPortfolio",
           [loc EXCEPT !.portfolio = r.result], <<>>)

\* the handler taking the create branch whatever the lookup returned
postPortfolioAfterGetPortfolio_AlwaysCreates(st, loc) ==
  LET r == createPortfolio(st, [userId |-> Get(loc.user).id,
                                data |-> Get(loc.portfolioData)])
  IN Await(r.store, "post:afterCreate",
           [loc EXCEPT !.portfolio = r.result],
           <<[kind |-> "portfolios", id |-> Get(r.result).id]>>)

\* if (portfolio) await storage.updatePortfolio(portfolio.id, portfolioData)
\* else await storage.createPortfolio({ userId: user.id, data: portfolioData })
postPortfolioAfterGetPortfolio(st, loc) ==
  IF IsSome(loc.portfolio)
  THEN LET r == updatePortfolio(st, Get(loc.portfolio).id, Get(loc.portfolioData))
       IN Await(r.store, "post:afterUpdate",
                [loc EXCEPT !.portfolio = r.result], <<>>)
  ELSE LET r == createPortfolio(st, [userId |-> Get(loc.user).id,
                                     data |-> Get(loc.portfolioData)])
       IN Await(r.store, "post:afterCreate",
                [loc EXCEPT !.portfolio = r.result],
                <<[kind |-> "portfolios", id |-> Get(r.result).id]>>)

\* res.json drops a key whose value is undefined: { id: portfolio?.id, ... }
postPortfolioRespondUpdated(st, loc) ==
  Send(st, 200,
       IF IsSome(loc.portfolio)
       THEN [id |-> Get(loc.portfolio).id, message |-> "Portfolio updated successfully"]
       ELSE [message |-> "Portfolio updated successfully"])

postPortfolioRespondCreated(st, loc) ==
  Send(st, 201, [id |-> Get(loc.portfolio).id,
                 message |-> "Portfolio created successfully"])

\* POST /api/contact, up to `await storage.createContactMessage(result.data)`;
\* new Date() reads `now` in the handler and `later` in the store
postContactHandler(st, body, now, later) ==
  LET contactData == [k \in (DOMAIN body) \cup {"createdAt"} |->
                        IF k = "createdAt" THEN JStr(toISOString(now)) ELSE body[k]]
      result == insertContactSchema(contactData)
  IN IF ~result.success
     THEN Send(st, 400, [message |-> ValidationMessage])
     ELSE LET r == createContactMessage(st, result.data, later)
          IN Await(r.store, "contact:afterCreate",
                   [NoLocals EXCEPT !.contact = Some(r.result)],
                   <<[kind |-> "contactMessages", id |-> r.result.id]>>)

postContactRespond(st, loc) ==
  Send(st, 201, [id |-> Get(loc.contact).id, message |-> "Message sent successfully"])

(***************************************************************************)
(* Actions.                                                                *)
(***************************************************************************)
IsPortfolioSaved(r, out) ==
  /\ r.kind = "POST /api/portfolio"
  /\ IsSome(out.resp)
  /\ Get(out.resp).status \in {200, 201}

\* the history a segment leaves
Record(p, r, out) ==
  /\ assigned' =
       [k \in DOMAIN assigned |->
          IF out.created # <<>> /\ out.created[1].kind = k
          THEN Append(assigned[k], out.created[1].id)
          ELSE assigned[k]]
  /\ IF IsPortfolioSaved(r, out)
     THEN /\ lastPost' = Some([id |-> IF "id" \in DOMAIN Get(out.resp).body
                                      THEN Some(Get(out.resp).body.id) ELSE None,
                               status |-> Get(out.resp).status,
                               body |-> r.body])
          /\ prevPost' = lastPost
          /\ n201' = IF Get(out.resp).status = 201 THEN n201 + 1 ELSE n201
     ELSE UNCHANGED <<lastPost, prevPost, n201>>

\* handler p, handling request r, runs one segment
Apply(p, r, out) ==
  /\ storage' = out.store
  /\ pc' = [pc EXCEPT ![p] = out.pc]
  /\ local' = [local EXCEPT ![p] = out.local]
  /\ req' = [req EXCEPT ![p] = IF IsSome(out.resp) THEN NoRequest ELSE r]
  /\ sent' = IF IsSome(out.resp)
             THEN Some([req |-> r, resp |-> Get(out.resp)])
             ELSE None
  /\ Record(p, r, out)
  /\ UNCHANGED <<calls, lastCall>>

\* a request arrives and handler p takes it
Take(p) ==
  /\ pc[p] = "idle"
  /\ budget > 0
  /\ budget' = budget - 1

Resume(p, at) ==
  /\ pc[p] = at
  /\ UNCHANGED budget

GetPortfolio(p) ==
  \E idParam \in IdParams :
    LET r == [kind |-> "GET /api/portfolio/:id", id |-> idParam]
        out == getPortfolioHandler(storage, idParam)
    IN Take(p) /\ Apply(p, r, out) /\ UNCHANGED <<clock, page, uploads>>

GetPortfolioRespond(p) ==
  LET out == getPortfolioRespond(storage, local[p])
  IN Resume(p, "get:afterGetPortfolio") /\ Apply(p, req[p], out) /\ UNCHANGED <<clock, page, uploads>>

PostPortfolio(p) ==
  \E body \in PortfolioBodies :
    LET r == [kind |-> "POST /api/portfolio", body |-> body]
        out == postPortfolioHandler(storage, body)
    IN Take(p) /\ Apply(p, r, out) /\ UNCHANGED <<clock, page, uploads>>

PostPortfolioAfterGetUser(p) ==
  LET out == postPortfolioAfterGetUser(storage, local[p])
  IN Resume(p, "post:afterGetUser") /\ Apply(p, req[p], out) /\ UNCHANGED <<clock, page, uploads>>

PostPortfolioAfterCreateUser(p) ==
  LET out == postPortfolioAfterCreateUser(storage, local[p])
  IN Resume(p, "post:afterCreateUser") /\ Apply(p, req[p], out) /\ UNCHANGED <<clock, page, uploads>>

PostPortfolioAfterGetPortfolio(p) ==
  LET out == postPortfolioAfterGetPortfolio(storage, local[p])
  IN Resume(p, "post:afterGetPortfolio") /\ Apply(p, req[p], out) /\ UNCHANGED <<clock, page, uploads>>

PostPortfolioRespondUpdated(p) ==
  LET out == postPortfolioRespondUpdated(storage, local[p])
  IN Resume(p, "post:afterUpdate") /\ Apply(p, req[p], out) /\ UNCHANGED <<clock, page, uploads>>

PostPortfolioRespondCreated(p) ==
  LET out == postPortfolioRespondCreated(storage, local[p])
  IN Resume(p, "post:afterCreate") /\ Apply(p, req[p], out) /\ UNCHANGED <<clock, page, uploads>>

\* the clock never runs backwards: each new Date() reads the value of the
\* last reading or a later one
PostContact(p) ==
  \E body \in ContactBodies, now \in clock..MaxClock :
    \E later \in now..MaxClock :
      LET r == [kind |-> "POST /api/contact", body |-> body]
          out == postContactHandler(storage, body, now, later)
      IN /\ Take(p) /\ Apply(p, r, out)
         /\ clock' = IF IsSome(out.resp) THEN now ELSE later
         /\ UNCHANGED <<page, uploads>>

PostContactRespond(p) ==
  LET out == postContactRespond(storage, local[p])
  IN Resume(p, "contact:afterCreate") /\ Apply(p, req[p], out) /\ UNCHANGED <<clock, page, uploads>>

Handle(p) ==
  \/ GetPortfolio(p)
  \/ GetPortfolioRespond(p)
  \/ PostPortfolio(p)
  \/ PostPortfolioAfterGetUser(p)
  \/ PostPortfolioAfterCreateUser(p)
  \/ PostPortfolioAfterGetPortfolio(p)
  \/ PostPortfolioRespondUpdated(p)
  \/ PostPortfolioRespondCreated(p)
  \/ PostContact(p)
  \/ PostContactRespond(p)

\* requests are handled concurrently: handlers interleave at their awaits
Next == \E p \in Procs : Handle(p)
Spec == Init /\ [][Next]_vars

\* requests are handled one at a time: a handler runs to completion before
\* the next request is taken
SeqNext == Handle(1)
SeqSpec == SeqInit /\ [][SeqNext]_vars

(***************************************************************************)
(* The data store on its own: any caller of the IStorage interface, with   *)
(* any arguments.                                                          *)
(***************************************************************************)
InsertUsers ==
  {[username |-> "defaultuser", password |-> "defaultpassword"],
   [username |-> "guest", password |-> "guestpassword"]}
\* what portfolioSchema lets through
PortfolioDatas ==
  {portfolioSchema(b).data : b \in {x \in PortfolioBodies : portfolioSchema(x).success}}
\* what insertContactSchema lets through
InsertContacts ==
  {insertContactSchema(b).data : b \in {x \in ContactBodies : insertContactSchema(x).success}}
\* the ids a caller may pass: those assigned so far, and one that is not
CallIds == 1..(MaxCalls + 1)

Call(op, args, r, created) ==
  /\ calls < MaxCalls
  /\ calls' = calls + 1
  /\ storage' = r.store
  /\ lastCall' = Some([op |-> op, args |-> args, before |-> storage,
                       result |-> r.result])
  /\ assigned' = [k \in DOMAIN assigned |->
                    IF created # <<>> /\ created[1].kind = k
                    THEN Append(assigned[k], created[1].id)
                    ELSE assigned[k]]
  /\ UNCHANGED <<pc, req, local, sent, budget, lastPost, prevPost, n201>>

CallCreateUser ==
  \E insertUser \in InsertUsers :
    LET r == createUser(storage, insertUser)
    IN /\ Call("createUser", [insertUser |-> insertUser], r,
               <<[kind |-> "users", id |-> r.result.id]>>)
       /\ UNCHANGED <<clock, page, uploads>>

CallCreatePortfolio ==
  \E userId \in CallIds, data \in PortfolioDatas :
    LET r == createPortfolio(storage, [userId |-> userId, data |-> data])
    IN /\ Call("createPortfolio", [userId |-> userId, data |-> data], r,
               <<[kind |-> "portfolios", id |-> Get(r.result).id]>>)
       /\ UNCHANGED <<clock, page, uploads>>

CallUpdatePortfolio ==
  \E id \in CallIds, data \in PortfolioDatas :
    LET r == updatePortfolio(storage, id, data)
    IN /\ Call("updatePortfolio", [id |-> id, data |-> data], r, <<>>)
       /\ UNCHANGED <<clock, page, uploads>>

CallCreateContactMessage ==
  \E insertMessage \in InsertContacts, now \in clock..MaxClock :
    LET r == createContactMessage(storage, insertMessage, now)
    IN /\ Call("createContactMessage", [insertMessage |-> insertMessage], r,
               <<[kind |-> "contactMessages", id |-> r.result.id]>>)
       /\ clock' = now
       /\ UNCHANGED <<page, uploads>>

CallGetContactMessages ==
  \E portfolioId \in CallIds :
    LET r == getContactMessages(storage, portfolioId)
    IN /\ Call("getContactMessages", [portfolioId |-> portfolioId], r, <<>>)
       /\ UNCHANGED <<clock, page, uploads>>

StoreNext ==
  \/ CallCreateUser
  \/ CallCreatePortfolio
  \/ CallUpdatePortfolio
  \/ CallCreateContactMessage
  \/ CallGetContactMessages
StoreInit == Start(0)
StoreSpec == StoreInit /\ [][StoreNext]_vars

(***************************************************************************)
(* The browser (client/src): the data entry form, the portfolio page and   *)
(* its projects grid.  The page is shown once a submission of the form has *)
(* succeeded, with the values of the form as its data; a drag that moves a *)
(* project resubmits the whole portfolio.                                  *)
(***************************************************************************)
\* number of requests the browser sends over a run of ReorderSpec
MaxPageRequests == 3

\* what the form may hold when it is submitted: three projects, as the form
\* sends them (it has no field for order), three projects listed in another
\* order than their order values, and three projects of which one has no
\* order and two come to the same order
FormValues ==
  LET ProjectC == [title |-> JStr("C"), description |-> JStr("third"),
                   github |-> JStr("https://github.com/u/c")]
  IN {[PayloadA EXCEPT !.projects =
         <<Restrict(ProjectA, ProjectKeys \ {"order"}), ProjectB, ProjectC>>],
      [PayloadB EXCEPT !.projects =
         <<[ProjectA EXCEPT !.order = JNum(2)], ProjectB @@ ("order" :> JNum(0)),
           ProjectC @@ ("order" :> JNum(1))>>],
      [PayloadA EXCEPT !.projects =
         <<[ProjectA EXCEPT !.order = JNum(1)], ProjectB,
           ProjectC @@ ("order" :> JNum(0))>>]}

\* a.order || 0
OrderKey(project) ==
  IF IsNumber(project.order) /\ IsFinite(project.order) THEN project.order.val ELSE 0

\* an unstable sort: x goes before the elements that compare equal to it
InsertByOrder_BeforeEquals(sorted, x) ==
  LET k == Cardinality({i \in 1..Len(sorted) : OrderKey(sorted[i]) < OrderKey(x)})
  IN SubSeq(sorted, 1, k) \o <<x>> \o SubSeq(sorted, k + 1, Len(sorted))

\* Array.prototype.sort is stable: x goes after the elements that do not
\* compare greater than it
InsertByOrder(sorted, x) ==
  LET k == Cardinality({i \in 1..Len(sorted) : OrderKey(sorted[i]) <= OrderKey(x)})
  IN SubSeq(sorted, 1, k) \o <<x>> \o SubSeq(sorted, k + 1, Len(sorted))

RECURSIVE SortByOrder(_)
SortByOrder(projects) ==
  IF projects = <<>> THEN <<>>
  ELSE InsertByOrder(SortByOrder(SubSeq(projects, 1, Len(projects) - 1)),
                     projects[Len(projects)])

\* the effect of ProjectsSection on data.projects: a project without order
\* gets its index, then the list is sorted by order
sortedProjects(projects) ==
  LET projectsWithOrder ==
        [i \in 1..Len(projects) |->
           IF "order" \in DOMAIN projects[i] THEN projects[i]
           ELSE projects[i] @@ ("order" :> JNum(i - 1))]
  IN SortByOrder(projectsWithOrder)

\* handleDragEnd exchanging the two projects instead of moving one
handleDragEnd_Swaps(projects, source, destination) ==
  IF ~IsSome(destination) \/ Get(destination) = source THEN None
  ELSE LET s == source + 1
           d == Get(destination) + 1
           newProjects == [i \in 1..Len(projects) |->
                             IF i = s THEN projects[d]
                             ELSE IF i = d THEN projects[s] ELSE projects[i]]
       IN Some([i \in 1..Len(newProjects) |->
                  [newProjects[i] EXCEPT !.order = JNum(i - 1)]])

\* handleDragEnd returning early only for a drop outside the list
handleDragEnd_MovesInPlace(projects, source, destination) ==
  IF ~IsSome(destination) THEN None
  ELSE LET removed == projects[source + 1]
           spliced == SubSeq(projects, 1, source)
                        \o SubSeq(projects, source + 2, Len(projects))
           newProjects == SubSeq(spliced, 1, Get(destination)) \o <<removed>>
                            \o SubSeq(spliced, Get(destination) + 1, Len(spliced))
       IN Some([i \in 1..Len(newProjects) |->
                  [newProjects[i] EXCEPT !.order = JNum(i - 1)]])

\* handleDragEnd: the list it passes to setProjects and onProjectsReorder,
\* or nothing when it returns early; indexes count from 0
handleDragEnd(projects, source, destination) ==
  IF ~IsSome(destination) \/ Get(destination) = source THEN None
  ELSE LET removed == projects[source + 1]
           spliced == SubSeq(projects, 1, source)
                        \o SubSeq(projects, source + 2, Len(projects))
           newProjects == SubSeq(spliced, 1, Get(destination)) \o <<removed>>
                            \o SubSeq(spliced, Get(destination) + 1, Len(spliced))
       IN Some([i \in 1..Len(newProjects) |->
                  [newProjects[i] EXCEPT !.order = JNum(i - 1)]])

\* handleProjectsReorder sending a placeholder in place of the skills
handleProjectsReorder_ResetsSkills(data, reorderedProjects) ==
  [data EXCEPT !.projects = reorderedProjects, !.skills = <<JStr("none")>>]

\* handleProjectsReorder: { ...data, projects: reorderedProjects }
handleProjectsReorder(data, reorderedProjects) ==
  [data EXCEPT !.projects = reorderedProjects]

ServerVars == <<storage, clock, pc, req, local, sent, budget, assigned, lastPost,
                prevPost, n201, calls, lastCall, uploads>>

\* the number of requests the browser may still send
CanSend == Len(page.pending) < budget

\* DataEntryPage.onSubmit: createPortfolio.mutate(data)
SubmitForm ==
  \E data \in FormValues :
    /\ page.data = None
    /\ page.pending = <<>>
    /\ \A p \in Procs : pc[p] = "idle"
    /\ sent = None
    /\ CanSend
    /\ page' = [page EXCEPT !.pending =
                  <<[kind |-> "POST /api/portfolio", body |-> data, origin |-> "form"]>>]
    /\ UNCHANGED ServerVars

\* createPortfolio's onSuccess: onDataSubmit(form.getValues(), data.id); the
\* Router shows the portfolio page and ProjectsSection's effect runs
OnDataSubmit ==
  /\ page.data = None
  /\ IsSome(sent)
  /\ Get(sent).req.kind = "POST /api/portfolio"
  /\ "origin" \in DOMAIN Get(sent).req
  /\ Get(sent).req.origin = "form"
  /\ Get(sent).resp.status \in {200, 201}
  /\ page' = [page EXCEPT !.data = Some(Get(sent).req.body),
                          !.projects = sortedProjects(Get(sent).req.body.projects)]
  /\ UNCHANGED ServerVars

\* the user drops the project shown at index source: outside the list, at
\* its own index or at another index
DragEnd ==
  /\ IsSome(page.data)
  /\ \E source \in 0..(Len(page.projects) - 1) :
       \E destination \in {None} \cup {Some(i) : i \in 0..(Len(page.projects) - 1)} :
         LET updatedProjects == handleDragEnd(page.projects, source, destination)
         IN IF ~IsSome(updatedProjects)
            THEN page' = [page EXCEPT !.ignored = Some([source |-> source,
                                                        destination |-> destination])]
            ELSE /\ CanSend
                 /\ page' =
                      [page EXCEPT
                         !.projects = Get(updatedProjects),
                         !.ignored = None,
                         !.pending = Append(@,
                           [kind |-> "POST /api/portfolio",
                            body |-> handleProjectsReorder(Get(page.data),
                                                           Get(updatedProjects)),
                            origin |-> "drag",
                            drag |-> [source |-> source,
                                      destination |-> Get(destination),
                                      projects |-> page.projects]])]
  /\ UNCHANGED ServerVars

\* a request of the browser reaches the server: POST /api/portfolio, up to
\* its first await.  Each mutate() is a fetch of its own, and the requests
\* in flight reach the server in any order.
PagePost(p) ==
  /\ page.pending # <<>>
  /\ \E k \in 1..Len(page.pending) :
       LET r == page.pending[k]
           out == postPortfolioHandler(storage, r.body)
       IN /\ Take(p) /\ Apply(p, r, out)
          /\ page' = [page EXCEPT !.pending =
                        SubSeq(@, 1, k - 1) \o SubSeq(@, k + 1, Len(@))]
  /\ UNCHANGED <<clock, uploads>>

\* one browser and the server, which handles its requests one at a time
ReorderNext ==
  \/ SubmitForm
  \/ OnDataSubmit
  \/ DragEnd
  \/ PagePost(1)
  \/ PostPortfolioAfterGetUser(1)
  \/ PostPortfolioAfterCreateUser(1)
  \/ PostPortfolioAfterGetPortfolio(1)
  \/ PostPortfolioRespondUpdated(1)
  \/ PostPortfolioRespondCreated(1)
ReorderInit == Start(MaxPageRequests)
ReorderSpec == ReorderInit /\ [][ReorderNext]_vars

(***************************************************************************)
(* Submissions that differ in one picture: the profilePicture, or the      *)
(* image of the project.                                                   *)
(***************************************************************************)
\* number of requests over a run of PictureSpec
MaxPictureRequests == 2

PictureValues ==
  {"/uploads/abc.png", "https://example.com/x.png", "/", "//cdn.example.com/x.png",
   "HTTP://EXAMPLE.COM/X.PNG", "not-a-url", "", "uploads/abc.png",
   "example.com/x.png", "./x.png", " /x.png", "https://", "x /https://a.b"}

\* PayloadA with the picture of one field replaced
WithPicture(field, value) ==
  IF field = "profilePicture"
  THEN [PayloadA EXCEPT !.profilePicture = JStr(value)]
  ELSE [PayloadA EXCEPT !.projects = <<[ProjectA EXCEPT !.image = JStr(value)]>>]

PostPortfolioPicture(p) ==
  \E field \in {"profilePicture", "image"}, value \in PictureValues :
    LET r == [kind |-> "POST /api/portfolio", body |-> WithPicture(field, value),
              picture |-> value]
        out == postPortfolioHandler(storage, r.body)
    IN Take(p) /\ Apply(p, r, out) /\ UNCHANGED <<clock, page, uploads>>

PictureNext ==
  \/ PostPortfolioPicture(1)
  \/ PostPortfolioAfterGetUser(1)
  \/ PostPortfolioAfterCreateUser(1)
  \/ PostPortfolioAfterGetPortfolio(1)
  \/ PostPortfolioRespondUpdated(1)
  \/ PostPortfolioRespondCreated(1)
PictureInit == Start(MaxPictureRequests)
PictureSpec == PictureInit /\ [][PictureNext]_vars

(***************************************************************************)
(* File upload (server/routes.ts): the multer middleware configured with   *)
(* storage_config, limits and fileFilter, then the handler of              *)
(* POST /api/upload.                                                       *)
(***************************************************************************)
\* number of requests over a run of UploadSpec
MaxUploads == 2

\* limits: { fileSize: 5 * 1024 * 1024 }
FileSizeLimit == 5 * 1024 * 1024

\* String.prototype.startsWith
StartsWith(str, prefix) ==
  Len(str) >= Len(prefix) /\ SubSeq(str, 1, Len(prefix)) = prefix

\* index of the last "." of name, 0 when it has none
RECURSIVE LastDot(_)
LastDot(name) ==
  IF name = "" THEN 0
  ELSE IF Char(name, Len(name)) = "." THEN Len(name)
  ELSE LastDot(SubSeq(name, 1, Len(name) - 1))

\* path.extname of a file name without directories: from its last "." on,
\* empty when it has none or when it is the first character
extname(name) == IF LastDot(name) <= 1 THEN "" ELSE Tail_(name, LastDot(name))

\* the fileFilter accepting every file
fileFilter_AcceptsAll(file) == TRUE

\* fileFilter: cb(null, file.mimetype.startsWith('image/'))
fileFilter(file) == StartsWith(file.mimetype, "image/")

\* filename: Date.now() + '-' + Math.round(Math.random() * 1E9) + ext
filename(file, now, random) ==
  ToString(now) \o "-" \o ToString(random) \o extname(file.originalname)

\* upload.single('profilePicture') on a request with at most one file part:
\* whether it passes an error to next(), the req.file it leaves, the file it
\* leaves in uploads/ and whether Date.now() was read.  A file in another
\* field is an error before fileFilter is asked; a file fileFilter refuses is
\* skipped; a file longer than limits.fileSize is an error and what was
\* written of it is removed.  Whether a file of exactly limits.fileSize bytes
\* has reached the limit depends on the version of the multipart parser the
\* build installs: strictAtLimit is that choice.
uploadSingle(file, now, random, strictAtLimit) ==
  IF ~IsSome(file)
  THEN [error |-> FALSE, file |-> None, written |-> {}, timed |-> FALSE]
  ELSE IF Get(file).fieldname # "profilePicture"
  THEN [error |-> TRUE, file |-> None, written |-> {}, timed |-> FALSE]
  ELSE IF ~fileFilter(Get(file))
  THEN [error |-> FALSE, file |-> None, written |-> {}, timed |-> FALSE]
  ELSE IF \/ Get(file).size > FileSizeLimit
          \/ (strictAtLimit /\ Get(file).size = FileSizeLimit)
  THEN [error |-> TRUE, file |-> None, written |-> {}, timed |-> TRUE]
  ELSE LET name == filename(Get(file), now, random)
       IN [error |-> FALSE,
           file |-> Some([filename |-> name, mimetype |-> Get(file).mimetype,
                          size |-> Get(file).size]),
           written |-> {name}, timed |-> TRUE]

\* the handler of POST /api/upload
postUploadHandler(st, reqFile) ==
  IF ~IsSome(reqFile)
  THEN Send(st, 400, [message |-> "No file uploaded or file type not allowed"])
  ELSE Send(st, 201, [url |-> "/uploads/" \o Get(reqFile).filename,
                      message |-> "File uploaded successfully"])

\* an error of the middleware reaches no handler of routes.ts: the
\* framework's error handling answers it
uploadError(st) == Send(st, 500, [message |-> "Internal Server Error"])

UploadFiles ==
  [fieldname : {"profilePicture", "avatar"},
   mimetype : {"image/png", "application/pdf", "text/image/png"},
   size : {1, FileSizeLimit, FileSizeLimit + 1},
   originalname : {"me.png", "photo"}]

PostUpload(p) ==
  \E file \in {None} \cup {Some(f) : f \in UploadFiles} :
    \E now \in clock..MaxClock, random \in {0, 999999999}, strictAtLimit \in BOOLEAN :
      LET r == [kind |-> "POST /api/upload", file |-> file]
          m == uploadSingle(file, now, random, strictAtLimit)
          out == IF m.error THEN uploadError(storage)
                 ELSE postUploadHandler(storage, m.file)
      IN /\ Take(p) /\ Apply(p, r, out)
         /\ uploads' = uploads \cup m.written
         /\ clock' = IF m.timed THEN now ELSE clock
         /\ UNCHANGED page

UploadNext == \E p \in Procs : PostUpload(p)
UploadInit == Start(MaxUploads)
UploadSpec == UploadInit /\ [][UploadNext]_vars

(***************************************************************************)
(* The GitHub aggregator, GET /api/github/:username.  Its handler is not   *)
(* among the source files; it is modelled from its specification: fetch    *)
(* the profile, fetch the repository list, drop forks and private          *)
(* repositories, fetch the detail of each remaining one concurrently, and  *)
(* answer when every detail fetch has completed or failed.  The external   *)
(* API is a capability whose answers are any it may give.                  *)
(***************************************************************************)
\* number of requests over a run of GitHubSpec
MaxGitHubRequests == 2

\* the repository lists the API may answer, in its order (most recently
\* updated first), and the topics the detail record of each repository has
RepoLists ==
  LET repo(name, fork, private, description) ==
        [name |-> name, fork |-> fork, private |-> private,
         description |-> description,
         html_url |-> "https://github.com/octocat/" \o name]
  IN {<<repo("forked-lib", TRUE, FALSE, Some("a fork")),
        repo("secret", FALSE, TRUE, Some("hidden")),
        repo("foo-bar", FALSE, FALSE, Some(""))>>,
      <<repo("my_app-v2", FALSE, FALSE, Some("An app")),
        repo("forked-lib", TRUE, FALSE, Some("a fork")),
        repo("foo-bar", FALSE, FALSE, Some("")),
        repo("zed", FALSE, FALSE, None)>>,
      <<>>}
DetailTopics(name) ==
  IF name = "foo-bar" THEN <<"go", "cli">>
  ELSE IF name = "my_app-v2" THEN <<"web">> ELSE <<>>

\* an answer of the external API: a success with a body, a non-success
\* status, or no answer at all (the fetch throws)
Upstream(bodies) ==
  {[ok |-> TRUE, thrown |-> FALSE, body |-> b] : b \in bodies}
    \cup {[ok |-> FALSE, thrown |-> FALSE], [ok |-> FALSE, thrown |-> TRUE]}

\* the eligibility test keeping forks
IsEligible_KeepsForks(repo) == ~repo.private

\* only original public work is eligible
IsEligible(repo) == ~repo.fork /\ ~repo.private

\* the repository name with hyphens and underscores replaced by spaces
RECURSIVE titleOf(_)
titleOf(name) ==
  IF name = "" THEN ""
  ELSE (IF Char(name, 1) \in {"-", "_"} THEN " " ELSE Char(name, 1))
         \o titleOf(Tail_(name, 2))

RECURSIVE Join(_, _)
Join(strings, separator) ==
  IF strings = <<>> THEN ""
  ELSE IF Len(strings) = 1 THEN strings[1]
  ELSE strings[1] \o separator \o Join(Tail(strings), separator)

\* the repository's description, then its topics as a "Technologies" line,
\* after a blank line when there is a description; a text naming the user
\* when both are missing
descriptionOf(username, repo, topics) ==
  LET own == IF IsSome(repo.description) THEN Get(repo.description) ELSE ""
      technologies == "Technologies: " \o Join(topics, ", ")
  IN IF topics # <<>>
     THEN (IF own # "" THEN own \o "\n\n" \o technologies ELSE technologies)
     ELSE IF own # "" THEN own
     ELSE "A project repository by " \o username

\* the Project of a repository; order is left unset
projectOf(username, repo, topics) ==
  [title |-> JStr(titleOf(repo.name)),
   description |-> JStr(descriptionOf(username, repo, topics)),
   image |-> JStr("https://opengraph.githubassets.com/1/" \o username \o "/" \o repo.name),
   github |-> JStr(repo.html_url)]

\* the handler up to the fetch of the profile
getGitHubHandler(st, username) ==
  IF username = ""
  THEN Send(st, 400, [message |-> "GitHub username is required"])
  ELSE Await(st, "github:afterProfile",
             [username |-> username, profile |-> None, repos |-> <<>>, topics |-> <<>>],
             <<>>)

\* the profile fetch has answered; on success the repository list is fetched
getGitHubAfterProfile(st, loc, response) ==
  IF response.thrown THEN Send(st, 500, [message |-> "Internal server error"])
  ELSE IF ~response.ok THEN Send(st, 404, [message |-> "GitHub user not found"])
  ELSE Await(st, "github:afterRepos", [loc EXCEPT !.profile = Some(response.body)], <<>>)

\* the aggregator reporting a failed repository list as not found
getGitHubAfterRepos_NotFound(st, loc, response) ==
  IF response.thrown THEN Send(st, 500, [message |-> "Internal server error"])
  ELSE IF ~response.ok THEN Send(st, 404, [message |-> "GitHub user not found"])
  ELSE LET eligible == SelectSeq(response.body, IsEligible)
       IN Await(st, "github:details",
                [loc EXCEPT !.repos = eligible,
                            !.topics = [i \in 1..Len(eligible) |-> None]], <<>>)

\* the repository list has answered; on success the detail of every
\* eligible repository is fetched, all at once
getGitHubAfterRepos(st, loc, response) ==
  IF response.thrown THEN Send(st, 500, [message |-> "Internal server error"])
  ELSE IF ~response.ok
  THEN Send(st, 500, [message |-> "Failed to fetch GitHub repositories"])
  ELSE LET eligible == SelectSeq(response.body, IsEligible)
       IN Await(st, "github:details",
                [loc EXCEPT !.repos = eligible,
                            !.topics = [i \in 1..Len(eligible) |-> None]], <<>>)

\* the aggregator failing as a whole when one detail fetch fails
getGitHubAfterDetail_FailsAll(st, loc, i, response) ==
  IF response.ok
  THEN Await(st, "github:details",
             [loc EXCEPT !.topics[i] = Some(response.body)], <<>>)
  ELSE Send(st, 500, [message |-> "Internal server error"])

\* the detail fetch of the i-th eligible repository has completed or
\* failed: a failure leaves that repository with no topic
getGitHubAfterDetail(st, loc, i, response) ==
  Await(st, "github:details",
        [loc EXCEPT !.topics[i] = Some(IF response.ok THEN response.body ELSE <<>>)],
        <<>>)

\* every detail fetch has completed or failed: the response is built
getGitHubRespond(st, loc) ==
  Send(st, 200,
       [githubProfile |-> Get(loc.profile),
        projects |-> [i \in 1..Len(loc.repos) |->
                        projectOf(loc.username, loc.repos[i], Get(loc.topics[i]))]])

\* useGitHubProjects: the hook sends no request for an empty username; a
\* direct request may name none
GetGitHub(p) ==
  \E username \in {"octocat", ""} :
    LET r == [kind |-> "GET /api/github/:username", username |-> username,
              fetched |-> <<>>, details |-> <<>>]
        out == getGitHubHandler(storage, username)
    IN Take(p) /\ Apply(p, r, out) /\ UNCHANGED <<clock, page, uploads>>

\* handler p resumes with an answer of the external API; the request keeps
\* the history of the answers the handler was given
GitHubResume(p, at, fetch, response, out) ==
  /\ Resume(p, at)
  /\ Apply(p, [req[p] EXCEPT !.fetched = Append(@, [fetch |-> fetch, response |-> response])],
           out)
  /\ UNCHANGED <<clock, page, uploads>>

GitHubProfileResponds(p) ==
  /\ pc[p] = "github:afterProfile"
  /\ \E response \in Upstream({[login |-> "octocat"]}) :
       GitHubResume(p, "github:afterProfile", "profile", response,
                    getGitHubAfterProfile(storage, local[p], response))

GitHubReposRespond(p) ==
  /\ pc[p] = "github:afterRepos"
  /\ \E response \in Upstream(RepoLists) :
       GitHubResume(p, "github:afterRepos", "repos", response,
                    getGitHubAfterRepos(storage, local[p], response))

\* the detail fetches complete in any order, each with its own outcome
GitHubDetailResponds(p) ==
  /\ pc[p] = "github:details"
  /\ \E i \in {k \in 1..Len(local[p].topics) : ~IsSome(local[p].topics[k])} :
       \E response \in Upstream({DetailTopics(local[p].repos[i].name)}) :
         /\ Resume(p, "github:details")
         /\ Apply(p, [req[p] EXCEPT !.details =
                        Append(@, [repo |-> local[p].repos[i].name, ok |-> response.ok])],
                  getGitHubAfterDetail(storage, local[p], i, response))
         /\ UNCHANGED <<clock, page, uploads>>

GitHubRespond(p) ==
  /\ Resume(p, "github:details")
  /\ \A i \in 1..Len(local[p].topics) : IsSome(local[p].topics[i])
  /\ Apply(p, req[p], getGitHubRespond(storage, local[p]))
  /\ UNCHANGED <<clock, page, uploads>>

GitHubNext ==
  \/ GetGitHub(1)
  \/ GitHubProfileResponds(1)
  \/ GitHubReposRespond(1)
  \/ GitHubDetailResponds(1)
  \/ GitHubRespond(1)
GitHubInit == Start(MaxGitHubRequests)
GitHubSpec == GitHubInit /\ [][GitHubNext]_vars

(***************************************************************************)
(* Properties.                                                             *)
(***************************************************************************)
\* the request and the response of the step that led to this state
Answered(kind) == IsSome(sent) /\ Get(sent).req.kind = kind
Status == Get(sent).resp.status
Body == Get(sent).resp.body

\* a POST /api/portfolio body with no key the schemas do not declare
NoUnknownFields(body) ==
  /\ DOMAIN body \subseteq PortfolioKeys
  /\ \A i \in 1..Len(body.projects) : DOMAIN body.projects[i] \subseteq ProjectKeys
  /\ \A i \in 1..Len(body.socialMedia) :
       DOMAIN body.socialMedia[i] \subseteq SocialMediaKeys

\* the default user has a portfolio
HasPortfolio ==
  \E u \in DOMAIN storage.users, i \in DOMAIN storage.portfolios :
    /\ storage.users[u].username = "defaultuser"
    /\ storage.portfolios[i].userId = storage.users[u].id

\* C1: round trip.  A GET /api/portfolio/i that follows the last
\* successful POST /api/portfolio, which returned id i and whose payload had
\* no unknown field, answers 200 with a body equal to that payload.
C1_RoundTrip ==
  (/\ Answered("GET /api/portfolio/:id")
   /\ IsSome(lastPost)
   /\ IsSome(Get(lastPost).id)
   /\ Get(sent).req.id = ToString(Get(Get(lastPost).id))
   /\ NoUnknownFields(Get(lastPost).body))
  => Get(sent).resp = [status |-> 200, body |-> Get(lastPost).body]

\* C2: the second of two valid POST /api/portfolio handled one after the
\* other returns the id the first returned and reports "updated", and the
\* stored data is the second payload alone, as validated: nothing of the
\* first payload is left in it.
C2_SecondPostReplaces ==
  (/\ Answered("POST /api/portfolio")
   /\ Status \in {200, 201}
   /\ IsSome(prevPost))
  => /\ "id" \in DOMAIN Body
     /\ Some(Body.id) = Get(prevPost).id
     /\ Status = 200
     /\ Body.message = "Portfolio updated successfully"
     /\ Body.id \in DOMAIN storage.portfolios
     /\ LET second == Get(sent).req.body
            stored == storage.portfolios[Body.id].data
        IN /\ stored = portfolioSchema(second).data
           /\ NoUnknownFields(second) => stored = second
           /\ \A i \in 1..Len(stored.projects) :
                DOMAIN stored.projects[i] \subseteq DOMAIN second.projects[i]

\* PayloadB has just replaced PayloadA: the stored project has none of the
\* optional fields PayloadA's project had
C2_Witness ==
  /\ Answered("POST /api/portfolio")
  /\ Status = 200
  /\ IsSome(prevPost)
  /\ Get(prevPost).body = PayloadA
  /\ Get(sent).req.body = PayloadB
  /\ storage.portfolios[Body.id].data.projects = <<ProjectB>>

\* C3: with requests handled one at a time the store never holds two
\* portfolios of the same userId.
C3_OnePortfolioPerUser ==
  \A i, j \in DOMAIN storage.portfolios :
    storage.portfolios[i].userId = storage.portfolios[j].userId => i = j

\* a second valid POST /api/portfolio has been answered and one portfolio is stored
C3_Witness ==
  /\ IsSome(prevPost)
  /\ Cardinality(DOMAIN storage.portfolios) = 1
  /\ budget = 0

\* what the state machine of the default user allows in one state: 201 was
\* answered at most once, there is no portfolio while no valid POST has been
\* handled, and a valid POST is answered by the state it found
C4_AnswerByState ==
  /\ n201 <= 1
  /\ (lastPost = None /\ \A p \in Procs : pc[p] = "idle") => ~HasPortfolio
  /\ (Answered("POST /api/portfolio") /\ portfolioSchema(Get(sent).req.body).success)
     => /\ HasPortfolio
        /\ IF prevPost = None
           THEN Status = 201 /\ Body.message = "Portfolio created successfully"
           ELSE Status = 200 /\ Body.message = "Portfolio updated successfully"

\* C4: the upsert state machine of the default user.  NoPortfolio until a
\* valid POST /api/portfolio is handled; the first one answers 201 "created",
\* every later one 200 "updated"; 201 is answered at most once; and
\* HasPortfolio is never left.
C4_UpsertStateMachine ==
  /\ ~HasPortfolio
  /\ []C4_AnswerByState
  /\ [][HasPortfolio => HasPortfolio']_vars

\* a third valid POST /api/portfolio has been answered "updated"
C4_Witness ==
  /\ Answered("POST /api/portfolio")
  /\ Status = 200
  /\ n201 = 1
  /\ IsSome(prevPost) /\ Get(prevPost).status = 200
  /\ HasPortfolio

IsDistinct(seq) == \A i, j \in 1..Len(seq) : seq[i] = seq[j] => i = j
Range(seq) == {seq[i] : i \in 1..Len(seq)}

\* C5: however the handlers interleave, no two create* calls of one kind
\* return the same id, and every create inserts a record of its own: the
\* map holds one record per create call, under the id that call returned.
C5_CreatesNeverCollide ==
  /\ \A k \in DOMAIN assigned : IsDistinct(assigned[k])
  /\ DOMAIN storage.users = Range(assigned.users)
  /\ DOMAIN storage.portfolios = Range(assigned.portfolios)
  /\ DOMAIN storage.contactMessages = Range(assigned.contactMessages)
  /\ Cardinality(DOMAIN storage.users) = Len(assigned.users)
  /\ Cardinality(DOMAIN storage.portfolios) = Len(assigned.portfolios)
  /\ Cardinality(DOMAIN storage.contactMessages) = Len(assigned.contactMessages)
  /\ \A p, q \in Procs :
       (p # q /\ IsSome(local[p].user) /\ IsSome(local[q].user)
          /\ pc[p] = "post:afterCreateUser" /\ pc[q] = "post:afterCreateUser")
       => Get(local[p].user).id # Get(local[q].user).id

\* two handlers have each created a user and are suspended at the await of
\* their createUser call
C5_Witness ==
  /\ \E p, q \in Procs :
       p # q /\ pc[p] = "post:afterCreateUser" /\ pc[q] = "post:afterCreateUser"
  /\ Len(assigned.users) = 2

\* C6: each kind has its own sequence 1, 2, 3, ...: the n-th create of a
\* kind returns n, and the kind's counter has advanced once per create of
\* that kind and of no other.
C6_OwnSequencePerKind ==
  /\ \A k \in DOMAIN assigned : \A n \in 1..Len(assigned[k]) : assigned[k][n] = n
  /\ storage.currentUserId = Len(assigned.users) + 1
  /\ storage.currentPortfolioId = Len(assigned.portfolios) + 1
  /\ storage.currentContactMessageId = Len(assigned.contactMessages) + 1

\* records of the three kinds have been created, in different numbers
C6_Witness ==
  /\ Len(assigned.users) = 1
  /\ Len(assigned.portfolios) = 1
  /\ Len(assigned.contactMessages) = 2

\* C7: updatePortfolio(id, data) on an absent id returns undefined and
\* leaves the whole store as it was; on a present id it returns the record
\* with its data replaced by `data`, its other fields kept, and changes
\* nothing else in the store.
C7_UpdatePortfolio ==
  (IsSome(lastCall) /\ Get(lastCall).op = "updatePortfolio")
  => LET c == Get(lastCall)
         id == c.args.id
     IN IF id \notin DOMAIN c.before.portfolios
        THEN /\ c.result = None
             /\ storage = c.before
        ELSE LET was == c.before.portfolios[id]
                 now == storage.portfolios[id]
             IN /\ c.result = Some(now)
                /\ now.data = c.args.data
                /\ now.id = was.id
                /\ now.userId = was.userId
                /\ DOMAIN now = DOMAIN was
                /\ DOMAIN storage.portfolios = DOMAIN c.before.portfolios
                /\ \A j \in DOMAIN storage.portfolios \ {id} :
                     storage.portfolios[j] = c.before.portfolios[j]
                /\ [storage EXCEPT !.portfolios = c.before.portfolios] = c.before

\* updatePortfolio was called with an id that is absent from a map that
\* holds other portfolios
C7_Witness ==
  /\ IsSome(lastCall)
  /\ Get(lastCall).op = "updatePortfolio"
  /\ Get(lastCall).args.id \notin DOMAIN Get(lastCall).before.portfolios
  /\ Cardinality(DOMAIN Get(lastCall).before.portfolios) = 2

\* the whole of s is a decimal integer
IsIntegerString(s) ==
  LET digits == IF s # "" /\ Char(s, 1) \in {"-", "+"} THEN Tail_(s, 2) ELSE s
  IN digits # "" /\ DigitPrefixLen(digits) = Len(digits)

\* C8: GET /api/portfolio/:id answers 400 exactly when the id is not an
\* integer, 404 exactly when it is an integer that names no stored
\* portfolio, and 200 with the data exactly when it names a stored one.
C8_GetAnswersByIdShape ==
  Answered("GET /api/portfolio/:id")
  => LET id == Get(sent).req.id
     IN IF ~IsIntegerString(id) THEN Status = 400
        ELSE IF parseInt(id).val \notin DOMAIN storage.portfolios THEN Status = 404
        ELSE /\ Status = 200
             /\ Body = jsonPortfolioData(storage.portfolios[parseInt(id).val].data)

\* C9: a POST /api/portfolio or POST /api/contact answered 400 leaves the
\* store as it was: no record of any kind is created or changed and no
\* counter advances.
C9_RejectedLeavesStore ==
  [][(/\ IsSome(sent')
      /\ Get(sent').req.kind \in {"POST /api/portfolio", "POST /api/contact"}
      /\ Get(sent').resp.status = 400)
     => storage' = storage]_vars

\* an invalid POST /api/portfolio was answered 400 before any user exists
C9_Witness ==
  /\ Answered("POST /api/portfolio")
  /\ Status = 400
  /\ storage = NewMemStorage

\* C10: POST /api/contact answers 400 and stores nothing when the message
\* has fewer than 10 characters or the name fewer than 2, and answers 201
\* when the message has exactly 10 characters and the rest is valid.
C10_ContactMinimumLengths ==
  (/\ Answered("POST /api/contact")
   /\ {"name", "message"} \subseteq DOMAIN Get(sent).req.body
   /\ IsString(Get(sent).req.body.name)
   /\ IsString(Get(sent).req.body.message))
  => LET body == Get(sent).req.body
     IN IF Len(body.message.val) < 10 \/ Len(body.name.val) < 2
        THEN Status = 400
        ELSE /\ Status = 201
             /\ Body.id \in DOMAIN storage.contactMessages
             /\ storage.contactMessages[Body.id].message = body.message


\* C11: the createdAt of a stored ContactMessage is the server's clock at
\* handling time, and the stored record is decided by the request's other
\* fields alone: apart from id and the server's stamp it is the declared
\* fields of the body, so two requests that differ only in a createdAt of
\* the client's store the same record and the client's value is never stored.
C11_CreatedAtIsServerClock ==
  (Answered("POST /api/contact") /\ Status = 201)
  => LET body == Get(sent).req.body
         m == storage.contactMessages[Body.id]
     IN /\ m.createdAt = JStr(toISOString(clock))
        /\ "createdAt" \in DOMAIN body => m.createdAt # body.createdAt
        /\ Restrict(m, (DOMAIN m) \ {"id", "createdAt"})
             = Restrict(body, (DOMAIN body) \ {"createdAt"})

\* a message sent with a createdAt of the client's was stored after the
\* server clock had advanced
C11_Witness ==
  /\ Answered("POST /api/contact")
  /\ Status = 201
  /\ "createdAt" \in DOMAIN Get(sent).req.body
  /\ clock = MaxClock
  /\ storage.contactMessages[Body.id].createdAt = JStr(toISOString(MaxClock))


\* every contact message of this state is in the next state, with the
\* same fields
C12_MessagesKept ==
  \A i \in DOMAIN storage.contactMessages :
    /\ i \in DOMAIN storage'.contactMessages
    /\ storage'.contactMessages[i] = storage.contactMessages[i]

\* what getContactMessages(p) returned is the stored messages of portfolio
\* p: each of them once, and no message of another portfolio or of none
C12_QueryExact ==
  (IsSome(lastCall) /\ Get(lastCall).op = "getContactMessages")
  => LET c == Get(lastCall)
         p == c.args.portfolioId
         stored == storage.contactMessages
         ofP == {i \in DOMAIN stored :
                   "portfolioId" \in DOMAIN stored[i]
                   /\ stored[i].portfolioId.type = "number"
                   /\ stored[i].portfolioId.val = p}
     IN /\ storage = c.before
        /\ Len(c.result) = Cardinality(ofP)
        /\ \A i \in ofP : \E n \in 1..Len(c.result) : c.result[n] = stored[i]
        /\ \A n \in 1..Len(c.result) : c.result[n].id \in ofP

\* C12: a stored ContactMessage stays in the store with all its fields
\* unchanged in every later state, whatever calls follow; and
\* getContactMessages(p) returns exactly the stored messages whose
\* portfolioId is p, no others and none missing.
C12_ContactMessagesImmutable ==
  /\ [][C12_MessagesKept]_vars
  /\ []C12_QueryExact

\* getContactMessages(1) was called on a store that holds a message of
\* portfolio 1 and a message of no portfolio, and returned one message
C12_Witness ==
  /\ IsSome(lastCall)
  /\ Get(lastCall).op = "getContactMessages"
  /\ Get(lastCall).args.portfolioId = 1
  /\ Cardinality(DOMAIN storage.contactMessages) = 2
  /\ \E i \in DOMAIN storage.contactMessages :
       "portfolioId" \notin DOMAIN storage.contactMessages[i]
  /\ Len(Get(lastCall).result) = 1


\* C13: a Portfolio record, once created, is never removed from the store
\* and no later submission or reorder changes its id or its userId; only its
\* data changes, and only by being replaced as a whole by the validated
\* payload of a submission being handled.
C13_PortfolioKept ==
  [][\A i \in DOMAIN storage.portfolios :
       /\ i \in DOMAIN storage'.portfolios
       /\ LET was == storage.portfolios[i]
              now == storage'.portfolios[i]
          IN /\ DOMAIN now = DOMAIN was
             /\ now.id = was.id
             /\ now.userId = was.userId
             /\ now.data # was.data
                  => \E p \in Procs :
                       /\ pc[p] = "post:afterGetPortfolio"
                       /\ pc'[p] = "post:afterUpdate"
                       /\ now.data = Get(local[p].portfolioData)
                       /\ now.data = portfolioSchema(req[p].body).data]_vars

\* the data of portfolio 1 has been replaced by a second submission and the
\* record still has the id and the userId it was created with
C13_Witness ==
  /\ IsSome(prevPost)
  /\ IsSome(lastPost)
  /\ Get(lastPost).status = 200
  /\ Get(prevPost).status = 201
  /\ Get(lastPost).id = Some(1)
  /\ storage.portfolios[1].id = 1
  /\ storage.portfolios[1].userId = 1
  /\ storage.portfolios[1].data = portfolioSchema(Get(lastPost).body).data
  /\ storage.portfolios[1].data # portfolioSchema(Get(prevPost).body).data


\* a project without its order
NoOrder(project) == Restrict(project, (DOMAIN project) \ {"order"})
\* a list without its element at index i (from 0)
Without(projects, i) == SubSeq(projects, 1, i) \o SubSeq(projects, i + 2, Len(projects))
NoOrders(projects) == [i \in 1..Len(projects) |-> NoOrder(projects[i])]

\* C14: dragging the project shown at index s to another index d gives a
\* list of the same projects with the dragged one at index d, the others in
\* the order they had, and order values 0..n-1 equal to the indexes; once the
\* resubmission is answered the stored data.projects is that list.
C14_DragReorders ==
  (Answered("POST /api/portfolio") /\ "drag" \in DOMAIN Get(sent).req)
  => LET drag == Get(sent).req.drag
         old == drag.projects
         new == Get(sent).req.body.projects
         s == drag.source
         d == drag.destination
     IN /\ Len(new) = Len(old)
        /\ NoOrder(new[d + 1]) = NoOrder(old[s + 1])
        /\ NoOrders(Without(new, d)) = NoOrders(Without(old, s))
        /\ \A i \in 1..Len(new) : new[i].order = JNum(i - 1)
        /\ Status = 200
        /\ "id" \in DOMAIN Body
        /\ Body.id \in DOMAIN storage.portfolios
        /\ storage.portfolios[Body.id].data.projects = new

\* [A, B, C] was shown, C was dropped at index 0 and C, A, B is stored with
\* order 0, 1, 2
C14_Witness ==
  /\ Answered("POST /api/portfolio")
  /\ "drag" \in DOMAIN Get(sent).req
  /\ Get(sent).req.drag.source = 2
  /\ Get(sent).req.drag.destination = 0
  /\ LET old == Get(sent).req.drag.projects
         stored == storage.portfolios[Body.id].data.projects
     IN /\ [i \in 1..3 |-> old[i].title.val] = <<"A", "B", "C">>
        /\ [i \in 1..3 |-> stored[i].title.val] = <<"C", "A", "B">>
        /\ [i \in 1..3 |-> stored[i].order.val] = <<0, 1, 2>>


\* the values of PictureValues that are absolute URLs
AbsoluteUrls ==
  {"https://example.com/x.png", "HTTP://EXAMPLE.COM/X.PNG"}
BeginsWithSlash(value) == Len(value) >= 1 /\ SubSeq(value, 1, 1) = "/"

\* C15: a submission whose profilePicture, or whose project's image, is an
\* absolute URL or a string beginning with "/" is accepted; with any other
\* value, the empty string and "not-a-url" included, POST /api/portfolio
\* answers 400.
C15_PictureUrlOrLocalPath ==
  (Answered("POST /api/portfolio") /\ "picture" \in DOMAIN Get(sent).req)
  => LET value == Get(sent).req.picture
     IN IF value \in AbsoluteUrls \/ BeginsWithSlash(value)
        THEN Status \in {200, 201}
        ELSE Status = 400

\* a local path was accepted as profilePicture after "not-a-url" or the
\* empty string had been refused
C15_Witness ==
  /\ Answered("POST /api/portfolio")
  /\ "picture" \in DOMAIN Get(sent).req
  /\ Get(sent).req.picture = "/uploads/abc.png"
  /\ Status = 201
  /\ budget = 0


C17_UniqueUsername ==
  /\ \A i, j \in DOMAIN storage.users :
       storage.users[i].username = storage.users[j].username => i = j
  /\ Len(assigned.users) <= 1


\* the answers the aggregator was given, read from the request's history
ProfileAnswer == Get(sent).req.fetched[1].response
ReposAnswer == Get(sent).req.fetched[2].response
GotProfile == Len(Get(sent).req.fetched) >= 1
GotRepos == Len(Get(sent).req.fetched) >= 2
\* the repositories of the fetched list that are neither fork nor private,
\* in the order of the list
Originals(list) == SelectSeq(list, LAMBDA repo : repo.fork = FALSE /\ repo.private = FALSE)
\* title is name with every hyphen and underscore turned into a space
IsTitleOf(title, name) ==
  /\ Len(title) = Len(name)
  /\ \A i \in 1..Len(name) :
       SubSeq(title, i, i) = (IF SubSeq(name, i, i) \in {"-", "_"} THEN " "
                              ELSE SubSeq(name, i, i))

\* C18: the aggregation returns one project per repository of the fetched
\* list that is neither a fork nor private and none for the others, in the
\* order of the list, each with the repository name as title, hyphens and
\* underscores replaced by spaces, and without order; "foo-bar" with an
\* empty description and topics go, cli becomes "foo bar" with description
\* "Technologies: go, cli".
C18_OneProjectPerOriginalRepo ==
  (Answered("GET /api/github/:username") /\ Status = 200)
  => LET originals == Originals(ReposAnswer.body)
         projects == Body.projects
     IN /\ Len(projects) = Len(originals)
        /\ \A i \in 1..Len(projects) :
             /\ projects[i].github = JStr(originals[i].html_url)
             /\ IsTitleOf(projects[i].title.val, originals[i].name)
             /\ "order" \notin DOMAIN projects[i]
             /\ (/\ originals[i].name = "foo-bar"
                 /\ [repo |-> "foo-bar", ok |-> TRUE] \in Range(Get(sent).req.details))
                => /\ projects[i].title = JStr("foo bar")
                   /\ projects[i].description = JStr("Technologies: go, cli")

\* the list [fork, private, foo-bar] was aggregated into one project
C18_Witness ==
  /\ Answered("GET /api/github/:username")
  /\ Status = 200
  /\ Len(ReposAnswer.body) = 3
  /\ ReposAnswer.body[1].fork
  /\ ReposAnswer.body[2].private
  /\ Len(Body.projects) = 1
  /\ Body.projects[1].title = JStr("foo bar")
  /\ Body.projects[1].description = JStr("Technologies: go, cli")


\* C19: GET /api/github/:username answers 404 when the profile lookup
\* returns a non-success response, and 500 when the profile lookup succeeds
\* and the repository-list fetch returns a non-success response; a failed
\* repository list is never answered 404, and after a failed profile lookup
\* no repository list is fetched and 200 is not answered.
C19_UpstreamFailures ==
  (Answered("GET /api/github/:username") /\ GotProfile)
  => /\ (~ProfileAnswer.ok /\ ~ProfileAnswer.thrown) => Status = 404
     /\ ~ProfileAnswer.ok => (~GotRepos /\ Status # 200)
     /\ (ProfileAnswer.ok /\ GotRepos /\ ~ReposAnswer.ok)
          => (Status # 404 /\ (~ReposAnswer.thrown => Status = 500))
     /\ Status = 404 => ~ProfileAnswer.ok

\* the profile was found and the repository list came back with a
\* non-success status, after a request whose profile lookup had failed
C19_Witness ==
  /\ Answered("GET /api/github/:username")
  /\ GotRepos
  /\ ProfileAnswer.ok
  /\ ~ReposAnswer.ok /\ ~ReposAnswer.thrown
  /\ Status = 500
  /\ budget = 0

\* C20: the detail fetches of the eligible repositories run concurrently and
\* the response is built only when each of them has completed or failed; a
\* failed one leaves its repository, and no other, without topics; so for
\* every set of failing detail fetches and every order of completion the
\* answer is 200 with one project per eligible repository in the order of
\* the API.
C20_DetailFanOutFanIn ==
  /\ \A p \in Procs :
       pc[p] = "github:details"
       => \* all the detail fetches are in flight together: those not yet
          \* answered are the eligible repositories less those answered
          /\ Len(local[p].topics) = Len(Originals(req[p].fetched[2].response.body))
          /\ Cardinality({i \in 1..Len(local[p].topics) : IsSome(local[p].topics[i])})
               = Len(req[p].details)
  /\ (Answered("GET /api/github/:username") /\ GotRepos /\ ReposAnswer.ok)
     => LET originals == Originals(ReposAnswer.body)
            details == Get(sent).req.details
        IN /\ Status = 200
           /\ Len(details) = Len(originals)
           /\ \A i \in 1..Len(originals) :
                \E k \in 1..Len(details) : details[k].repo = originals[i].name
           /\ Len(Body.projects) = Len(originals)
           /\ \A i \in 1..Len(originals) :
                LET own == IF IsSome(originals[i].description)
                           THEN Get(originals[i].description) ELSE ""
                    failed == [repo |-> originals[i].name, ok |-> FALSE] \in Range(details)
                    text == Body.projects[i].description.val
                IN /\ Body.projects[i].github = JStr(originals[i].html_url)
                   /\ failed => text = (IF own # "" THEN own
                                        ELSE "A project repository by octocat")
                   /\ (~failed /\ originals[i].name = "my_app-v2")
                        => text = "An app\n\nTechnologies: web"
                   /\ (~failed /\ originals[i].name = "foo-bar")
                        => text = "Technologies: go, cli"

\* three detail fetches were in flight; the last repository's completed
\* first, the first one's failed, and the answer has the three projects in
\* the order of the API, the first without topics
C20_Witness ==
  /\ Answered("GET /api/github/:username")
  /\ Status = 200
  /\ Len(Get(sent).req.details) = 3
  /\ Get(sent).req.details[1].repo = "zed"
  /\ [repo |-> "my_app-v2", ok |-> FALSE] \in Range(Get(sent).req.details)
  /\ [repo |-> "foo-bar", ok |-> TRUE] \in Range(Get(sent).req.details)
  /\ [i \in 1..3 |-> Body.projects[i].title.val] = <<"my app v2", "foo bar", "zed">>
  /\ Body.projects[1].description = JStr("An app")
  /\ Body.projects[2].description = JStr("Technologies: go, cli")


\* C21: two first-time POST /api/portfolio of the same user, interleaved
\* between getPortfolioByUserId and createPortfolio, leave two Portfolio
\* records of that userId: whenever two handlers of the same user have both
\* taken the create branch, the store holds two portfolios of that user.
C21_RaceCreatesTwo ==
  \A p, q \in Procs :
    (/\ p # q
     /\ pc[p] = "post:afterCreate"
     /\ pc[q] = "post:afterCreate"
     /\ Get(local[p].user).id = Get(local[q].user).id)
    => \E i, j \in DOMAIN storage.portfolios :
         /\ i # j
         /\ storage.portfolios[i].userId = Get(local[p].user).id
         /\ storage.portfolios[j].userId = Get(local[p].user).id
         /\ Get(local[p].portfolio).id # Get(local[q].portfolio).id

\* one user, two handlers that both found no portfolio and both created
\* one: the store holds two Portfolio records of user 1
C21_Witness ==
  /\ DOMAIN storage.users = {1}
  /\ \E p, q \in Procs :
       p # q /\ pc[p] = "post:afterCreate" /\ pc[q] = "post:afterCreate"
  /\ DOMAIN storage.portfolios = {1, 2}
  /\ storage.portfolios[1].userId = 1
  /\ storage.portfolios[2].userId = 1


(***************************************************************************)
(* Two browser tabs on one portfolio: the first submission is handled on   *)
(* its own, and once the portfolio exists the submissions of the tabs are  *)
(* handled concurrently.                                                   *)
(***************************************************************************)
MaxTabRequests == 3

TabsNext ==
  \E p \in Procs :
    /\ HasPortfolio \/ p = 1
    /\ \/ PostPortfolio(p)
       \/ PostPortfolioAfterGetUser(p)
       \/ PostPortfolioAfterCreateUser(p)
       \/ PostPortfolioAfterGetPortfolio(p)
       \/ PostPortfolioRespondUpdated(p)
       \/ PostPortfolioRespondCreated(p)
TabsSpec == Start(MaxTabRequests) /\ [][TabsNext]_vars

\* C22: last write wins.  Submissions of an existing portfolio that are
\* handled concurrently all succeed: a valid one is never rejected, whatever
\* the other handlers are doing, and the one that found the portfolio is
\* answered 200.  The stored data changes only at the store write of a
\* handler, and then to exactly the validated payload of that handler: after
\* the last write it is the payload of the last writer, never a mixture.
C22_LastWriteWins ==
  /\ [][\A i \in DOMAIN storage.portfolios :
          LET writers == {p \in Procs : /\ pc[p] = "post:afterGetPortfolio"
                                        /\ pc'[p] = "post:afterUpdate"
                                        /\ Get(local[p].portfolio).id = i}
          IN IF writers = {}
             THEN storage'.portfolios[i] = storage.portfolios[i]
             ELSE \A p \in writers :
                    storage'.portfolios[i].data = portfolioSchema(req[p].body).data]_vars
  /\ [](Answered("POST /api/portfolio")
        => IF portfolioSchema(Get(sent).req.body).success
           THEN Status \in {200, 201}
           ELSE Status = 400)
  /\ [][\A p \in Procs :
          (/\ pc[p] = "post:afterGetUser" \/ pc[p] = "post:afterCreateUser"
           /\ pc'[p] = "post:afterGetPortfolio"
           /\ HasPortfolio')
          => IsSome(local'[p].portfolio)]_vars
  /\ [][\A p \in Procs :
          (pc[p] = "post:afterGetPortfolio" /\ IsSome(local[p].portfolio)
           /\ pc'[p] # pc[p])
          => pc'[p] = "post:afterUpdate"]_vars
  /\ [][\A p \in Procs :
          (pc[p] = "post:afterUpdate" /\ pc'[p] = "idle")
          => Get(sent').resp.status = 200]_vars

\* two submissions of portfolio 1 with different payloads were handled
\* concurrently and both answered 200; the one answered first wrote last,
\* and the stored data is its payload
C22_Witness ==
  /\ \A p \in Procs : pc[p] = "idle"
  /\ IsSome(prevPost) /\ Get(prevPost).status = 200 /\ Get(prevPost).id = Some(1)
  /\ IsSome(lastPost) /\ Get(lastPost).status = 200 /\ Get(lastPost).id = Some(1)
  /\ portfolioSchema(Get(prevPost).body).data # portfolioSchema(Get(lastPost).body).data
  /\ storage.portfolios[1].data = portfolioSchema(Get(prevPost).body).data


\* C23: when the portfolio page is shown, the projects section displays
\* data.projects sorted by ascending order, a project without order taking
\* its array index as its order; projects of equal order keep the sequence
\* they have in the array.
C23_DisplayedByOrder ==
  [][(page.data = None /\ page'.data # None)
     => LET projects == Get(page'.data).projects
            n == Len(projects)
            order(i) == IF "order" \in DOMAIN projects[i]
                        THEN projects[i].order.val ELSE i - 1
        IN /\ Len(page'.projects) = n
           /\ \E at \in [1..n -> 1..n] :
                /\ \A k, l \in 1..n : k # l => at[k] # at[l]
                /\ \A k \in 1..n :
                     /\ NoOrder(page'.projects[k]) = NoOrder(projects[at[k]])
                     /\ page'.projects[k].order = JNum(order(at[k]))
                /\ \A k, l \in 1..n :
                     k < l => \/ order(at[k]) < order(at[l])
                              \/ order(at[k]) = order(at[l]) /\ at[k] < at[l]]_vars

\* the page has just been shown for the projects A (order 1), B (no order,
\* index 1) and C (order 0): C, A, B are displayed, A before B
C23_Witness ==
  /\ IsSome(page.data)
  /\ Answered("POST /api/portfolio")
  /\ Get(sent).req.origin = "form"
  /\ LET projects == Get(page.data).projects
     IN /\ Len(projects) = 3
        /\ "order" \in DOMAIN projects[1] /\ projects[1].order = JNum(1)
        /\ "order" \notin DOMAIN projects[2]
        /\ "order" \in DOMAIN projects[3] /\ projects[3].order = JNum(0)
        /\ NoOrders(page.projects) = <<NoOrder(projects[3]), NoOrder(projects[1]),
                                       NoOrder(projects[2])>>
        /\ page.projects[3].order = JNum(1)


MaxFieldRequests == 2

FieldsNext ==
  LET unknown == "admin" :> JStr("yes")
      social == PayloadA.socialMedia[1]
      portfolioBodies ==
        {Restrict(PayloadA, PortfolioKeys \ {k}) : k \in PortfolioKeys}
        \cup {[PayloadA EXCEPT !.projects = <<Restrict(ProjectA, ProjectKeys \ {k})>>] :
                k \in ProjectKeys}
        \cup {[PayloadA EXCEPT !.socialMedia = <<Restrict(social, SocialMediaKeys \ {k})>>] :
                k \in SocialMediaKeys}
        \cup {PayloadA @@ unknown,
              [PayloadA EXCEPT !.projects = <<ProjectA @@ unknown>>],
              [PayloadA EXCEPT !.socialMedia = <<social @@ unknown>>]}
      contactBodies ==
        {Restrict(ContactFull, (DOMAIN ContactFull) \ {k}) : k \in DOMAIN ContactFull}
        \cup {ContactOk @@ unknown}
  IN \/ \E body \in portfolioBodies :
          LET r == [kind |-> "POST /api/portfolio", body |-> body]
              out == postPortfolioHandler(storage, body)
          IN Take(1) /\ Apply(1, r, out) /\ UNCHANGED <<clock, page, uploads>>
     \/ PostPortfolioAfterGetUser(1)
     \/ PostPortfolioAfterCreateUser(1)
     \/ PostPortfolioAfterGetPortfolio(1)
     \/ PostPortfolioRespondUpdated(1)
     \/ PostPortfolioRespondCreated(1)
     \/ \E body \in contactBodies, now \in clock..MaxClock :
          LET r == [kind |-> "POST /api/contact", body |-> body]
              out == postContactHandler(storage, body, now, now)
          IN /\ Take(1) /\ Apply(1, r, out)
             /\ clock' = now
             /\ UNCHANGED <<page, uploads>>
     \/ PostContactRespond(1)
FieldsSpec == Start(MaxFieldRequests) /\ [][FieldsNext]_vars

\* C25: a portfolio or contact payload that carries fields no schema
\* declares and is otherwise valid is accepted (200 or 201, not 400) and the
\* record stored has none of those fields; a payload that lacks a required
\* field (any field of the portfolio; title or github of a project; name or
\* url of a social link; name, email or message of a contact message) is
\* answered 400.
C25_UnknownStrippedMissingRejected ==
  /\ Answered("POST /api/portfolio")
     => LET body == Get(sent).req.body
            complete ==
              /\ PortfolioKeys \subseteq DOMAIN body
              /\ \A i \in 1..Len(body.projects) :
                   {"title", "github"} \subseteq DOMAIN body.projects[i]
              /\ \A i \in 1..Len(body.socialMedia) :
                   SocialMediaKeys \subseteq DOMAIN body.socialMedia[i]
        IN IF ~complete THEN Status = 400
           ELSE /\ Status \in {200, 201}
                /\ LET data == storage.portfolios[Body.id].data
                   IN /\ DOMAIN data = PortfolioKeys
                      /\ \A k \in PortfolioKeys \ {"projects", "socialMedia"} :
                           data[k] = body[k]
                      /\ Len(data.projects) = Len(body.projects)
                      /\ \A i \in 1..Len(body.projects) :
                           data.projects[i] =
                             Restrict(body.projects[i], ProjectKeys)
                      /\ Len(data.socialMedia) = Len(body.socialMedia)
                      /\ \A i \in 1..Len(body.socialMedia) :
                           data.socialMedia[i] =
                             Restrict(body.socialMedia[i], SocialMediaKeys)
  /\ Answered("POST /api/contact")
     => LET body == Get(sent).req.body
        IN IF ~({"name", "email", "message"} \subseteq DOMAIN body)
           THEN Status = 400
           ELSE /\ Status = 201
                /\ LET message == storage.contactMessages[Body.id]
                   IN /\ DOMAIN message \subseteq ContactKeys \cup {"id", "createdAt"}
                      /\ Restrict(message, ContactKeys) = Restrict(body, ContactKeys)

\* a contact message sent with a field "admin" has been stored without it,
\* after a portfolio sent with a field "admin" in a project was stored
\* without it
C25_Witness ==
  /\ Answered("POST /api/contact")
  /\ "admin" \in DOMAIN Get(sent).req.body
  /\ Status = 201
  /\ "admin" \notin DOMAIN storage.contactMessages[Body.id]
  /\ IsSome(lastPost)
  /\ "admin" \in DOMAIN Get(lastPost).body.projects[1]
  /\ "admin" \notin DOMAIN storage.portfolios[1].data.projects[1]


\* C26: referential integrity.  In every reachable state the userId of each
\* stored Portfolio is the id of a stored User, and the portfolioId of each
\* stored ContactMessage, when it has one, is the id of a stored Portfolio.
C26_ReferentialIntegrity ==
  /\ \A i \in DOMAIN storage.portfolios :
       /\ storage.portfolios[i].userId \in DOMAIN storage.users
       /\ storage.users[storage.portfolios[i].userId].id = storage.portfolios[i].userId
  /\ \A m \in DOMAIN storage.contactMessages :
       LET message == storage.contactMessages[m]
       IN ("portfolioId" \in DOMAIN message /\ message.portfolioId # JNull)
          => \E i \in DOMAIN storage.portfolios :
               message.portfolioId = JNum(storage.portfolios[i].id)


\* C27: convergence after reorders.  Each drag that moves a project issues a
\* POST of its own, and the POSTs reach the server in any order; once all of
\* them have been answered, the last with 200, the stored data.projects is
\* the sequence the page displays.
C27_ReordersConverge ==
  (/\ Answered("POST /api/portfolio")
   /\ "drag" \in DOMAIN Get(sent).req
   /\ Status = 200
   /\ page.pending = <<>>
   /\ \A p \in Procs : pc[p] = "idle")
  => \A i \in DOMAIN storage.portfolios :
       storage.portfolios[i].data.projects = page.projects


\* C28: a drag that ends outside the list, or at the index it started from,
\* changes nothing: the displayed list and its order values stay as they
\* are, the reorder callback is not invoked and no POST is issued.  Every
\* change of the displayed list of a shown page, and every request a drag
\* issues, comes from a drop at another index of the list.
C28_IgnoredDropChangesNothing ==
  /\ [][(page'.ignored # page.ignored /\ IsSome(page'.ignored))
        => /\ \/ Get(page'.ignored).destination = None
              \/ Get(page'.ignored).destination = Some(Get(page'.ignored).source)
           /\ page'.projects = page.projects
           /\ page'.pending = page.pending
           /\ page'.data = page.data
           /\ UNCHANGED ServerVars]_vars
  /\ [][(IsSome(page.data) /\ page'.projects # page.projects)
        => Len(page'.pending) = Len(page.pending) + 1]_vars
  /\ [][(IsSome(page.data) /\ Len(page'.pending) > Len(page.pending))
        => LET r == page'.pending[Len(page'.pending)]
           IN /\ r.origin = "drag"
              /\ r.drag.destination # r.drag.source
              /\ r.drag.destination \in 0..(Len(page.projects) - 1)]_vars

\* after a reorder was answered, the project shown at index 1 was dropped
\* outside the list: the page still displays what the store holds, nothing
\* is pending
C28_Witness ==
  /\ IsSome(page.ignored)
  /\ Get(page.ignored) = [source |-> 1, destination |-> None]
  /\ Answered("POST /api/portfolio")
  /\ "drag" \in DOMAIN Get(sent).req
  /\ page.pending = <<>>
  /\ \A p \in Procs : pc[p] = "idle"
  /\ page.projects = storage.portfolios[1].data.projects


\* C29: however the requests are sequenced and their handlers interleaved,
\* every 200 or 201 answer of POST /api/portfolio carries an id, and that id
\* names a stored Portfolio whose userId is the id of the default user, the
\* user that a lookup of "defaultuser" returns; the update branch never
\* answers without an id.
C29_AnswerNamesStoredPortfolio ==
  (Answered("POST /api/portfolio") /\ Status \in {200, 201})
  => /\ "id" \in DOMAIN Body
     /\ Body.id \in DOMAIN storage.portfolios
     /\ LET portfolio == storage.portfolios[Body.id]
            defaultUser == getUserByUsername(storage, "defaultuser").result
        IN /\ portfolio.id = Body.id
           /\ IsSome(defaultUser)
           /\ portfolio.userId = Get(defaultUser).id

====
